---------------------------- MODULE Spec2Model ----------------------------
(***************************************************************************)
(* Hydrological forecasting and irrigation-decision engine of AgroChakra:  *)
(* SmartIrrigationService (backend/services/smart_irrigation_service.py)   *)
(* and WaterStressAdvisor (backend/services/water_stress_advisor.py).      *)
(*                                                                         *)
(* Python floats are modelled in fixed point.  Units:                      *)
(*   volumetric moisture, unrounded ....... 1e-6          ("M")            *)
(*   moisture rounded to 4 decimals ....... 1e-4                           *)
(*   moisture rounded to 3 decimals ....... 1e-3                           *)
(*   temperature, humidity, rainfall,                                      *)
(*   wind speed, solar radiation .......... 1e-1  (the forecast generator  *)
(*                                          rounds them to one decimal)    *)
(*   hourly water depth ................... 1e-6 mm       ("nm")           *)
(*   daily reference evapotranspiration ... 1e-3 mm       ("um")           *)
(*   LAI .................................. 1e-2                           *)
(*   irrigation water ..................... 1e-2 mm                        *)
(*   money ................................ 1e-4 USD                       *)
(*   duration ............................. 1/60000 hour                   *)
(* Integer division truncates where the float code keeps a fraction; the   *)
(* error is below one unit per operation.                                  *)
(***************************************************************************)
EXTENDS Integers, Sequences, FiniteSets, TLC

VARIABLES
    entry,                  \* which method the caller invoked
    crop_type,              \* argument crop_type
    soil_type,              \* argument soil_type
    irrigation_system,      \* argument irrigation_system
    lai_data,               \* argument lai_data (abstracted, see LaiInputs)
    weather_data,           \* argument weather_data (abstracted, see Histories)
    farm_bounds,            \* argument farm_bounds: "valid" or "invalid"
    pc,                     \* position inside the invoked method
    now,                    \* wall clock read by datetime.now(), in hours
    initial_conditions,     \* local of the entry point
    vegetation_params,      \* local of the entry point
    stress_threshold_data,  \* local of the entry point
    weather_forecast,       \* local: sequence of forecast days
    hour,                   \* loop variable of the simulation
    current_moisture,       \* loop state of the simulation (unit M)
    soil_moisture_forecast, \* local: the emitted series
    stress_analysis,        \* local of the entry point
    recommendation,         \* local: the IrrigationRecommendation
    response,               \* the value returned to the caller
    run,                    \* number of the invocation on this service instance
    previous,               \* what the previous invocation saw and returned
    service,                \* the fields of the SmartIrrigationService instance
    other                   \* locals of a second call running in another thread

vars == << entry, crop_type, soil_type, irrigation_system, lai_data,
           weather_data, farm_bounds, pc, now, initial_conditions,
           vegetation_params, stress_threshold_data, weather_forecast, hour,
           current_moisture, soil_moisture_forecast, stress_analysis,
           recommendation, response, run, previous, service, other >>

\* Python's None.  An Optional field that holds a number or a record is a
\* sequence of no or one element.
NONE == "None"

\* A local of a method that is not yet bound to a value.
UNBOUND == [ unbound |-> TRUE ]

-----------------------------------------------------------------------------
(* Arithmetic helpers standing for Python's float operations.              *)

Max(a, b) == IF a >= b THEN a ELSE b
Min(a, b) == IF a <= b THEN a ELSE b
Abs(a) == IF a < 0 THEN -a ELSE a

\* Python's round(x, n) on a value held in a unit `unit` times finer than the
\* n-th decimal: round half to even.
RoundHalfEven(x, unit) ==
    LET q == x \div unit
        r == x % unit
    IN  IF 2 * r > unit THEN q + 1
        ELSE IF 2 * r < unit THEN q
        ELSE IF q % 2 = 0 THEN q ELSE q + 1

\* round(x, 4) of a moisture in unit M, result in 1e-4.
Round4(m) == RoundHalfEven(m, 100)

\* round(x, 3) of a moisture in unit M, result in 1e-3.
Round3(m) == RoundHalfEven(m, 1000)

\* round(x, 1) of a water depth in 1e-3 mm, result in 1e-1 mm.
Round1(w) == RoundHalfEven(w, 100)

\* math.sin(2*pi*k/24) * 1000 for k = 0..23 (also math.sin(pi*k/12)).
Sin24 == << 0, 259, 500, 707, 866, 966, 1000, 966, 866, 707, 500, 259,
            0, -259, -500, -707, -866, -966, -1000, -966, -866, -707, -500, -259 >>

SinHour(h) == Sin24[(h % 24) + 1]

\* delta of the Penman-Monteith formula,
\*   4098 * 0.6108 * exp(17.27 T / (T + 237.3)) / (T + 237.3)^2,
\* times 1e4, tabulated for T = 0..45 degrees Celsius.
DeltaTab == << 445, 474, 505, 538, 572, 609, 647, 688, 731, 776, 823, 873,
               925, 980, 1037, 1098, 1161, 1228, 1298, 1371, 1447, 1528,
               1611, 1699, 1791, 1887, 1987, 2092, 2201, 2315, 2434, 2558,
               2687, 2821, 2962, 3108, 3260, 3418, 3582, 3753, 3931, 4115,
               4307, 4506, 4713, 4928 >>

\* delta at a temperature given in 0.1 degrees, read at the nearest whole
\* degree of the table (clamped to its range).
Delta4(t10) == DeltaTab[Max(0, Min(45, (t10 + 5) \div 10)) + 1]

-----------------------------------------------------------------------------
(* SmartIrrigationService.__init__: the parameter tables.                   *)
(* p, kc in 1e-2; field_capacity, wilting_point in unit M; rooting_depth in *)
(* mm; infiltration_rate in mm/h; hydraulic_conductivity in 1e-1.           *)

crop_parameters ==
    [ asparagus |-> [ p |-> 65, rooting_depth |-> 1200,
                      kc_values |-> [ initial |-> 50, development |-> 80,
                                      mid_season |-> 115, late_season |-> 100 ] ],
      tomato    |-> [ p |-> 40, rooting_depth |-> 1000,
                      kc_values |-> [ initial |-> 60, development |-> 115,
                                      mid_season |-> 115, late_season |-> 80 ] ],
      wheat     |-> [ p |-> 55, rooting_depth |-> 1500,
                      kc_values |-> [ initial |-> 40, development |-> 70,
                                      mid_season |-> 115, late_season |-> 40 ] ] ]

soil_types ==
    [ sandy |-> [ field_capacity |-> 250000, wilting_point |-> 100000,
                  infiltration_rate |-> 25, hydraulic_conductivity |-> 50 ],
      loamy |-> [ field_capacity |-> 350000, wilting_point |-> 150000,
                  infiltration_rate |-> 15, hydraulic_conductivity |-> 25 ],
      clay  |-> [ field_capacity |-> 450000, wilting_point |-> 200000,
                  infiltration_rate |-> 5, hydraulic_conductivity |-> 5 ] ]

\* efficiency and cost_per_mm in 1e-2, application_rate in mm/h.
irrigation_systems ==
    [ drip            |-> [ efficiency |-> 90, cost_per_mm |-> 15, application_rate |-> 5 ],
      sprinkler       |-> [ efficiency |-> 75, cost_per_mm |-> 10, application_rate |-> 15 ],
      flood           |-> [ efficiency |-> 60, cost_per_mm |-> 5, application_rate |-> 25 ],
      micro_sprinkler |-> [ efficiency |-> 85, cost_per_mm |-> 12, application_rate |-> 8 ] ]

forecast_horizon == 72

\* The instance after SmartIrrigationService.__init__.
ServiceInstance ==
    [ crop_parameters |-> crop_parameters,
      soil_types |-> soil_types,
      irrigation_systems |-> irrigation_systems,
      forecast_horizon |-> forecast_horizon,
      monitoring_frequency |-> 24,
      model_update_frequency |-> 24 ]

\* self.crop_parameters.get(crop_type, self.crop_parameters['asparagus'])
CropParams(crop) ==
    IF crop \in DOMAIN service.crop_parameters THEN service.crop_parameters[crop]
    ELSE service.crop_parameters["asparagus"]

\* self.soil_types.get(soil_type, self.soil_types['loamy'])
SoilParams(soil) ==
    IF soil \in DOMAIN service.soil_types THEN service.soil_types[soil]
    ELSE service.soil_types["loamy"]

\* A variant of SystemParams that falls back to the sprinkler entry.
SystemParamsSprinklerDefault(system) ==
    IF system \in DOMAIN service.irrigation_systems
    THEN service.irrigation_systems[system]
    ELSE service.irrigation_systems["sprinkler"]

\* self.irrigation_systems.get(irrigation_system, self.irrigation_systems['drip'])
SystemParams(system) ==
    IF system \in DOMAIN service.irrigation_systems
    THEN service.irrigation_systems[system]
    ELSE service.irrigation_systems["drip"]

-----------------------------------------------------------------------------
(* SmartIrrigationService: threshold calculator (FAO-56).                   *)

\* A variant of _calculate_vegetation_adjustment that raises the threshold of
\* young plants by 30 percent.
vegetation_adjustment_steep(lai, crop) ==
    IF lai < 100 THEN 130
    ELSE IF lai > 400 THEN 95
    ELSE 100

\* _calculate_vegetation_adjustment, result in 1e-2; lai in 1e-2.
calculate_vegetation_adjustment(lai, crop) ==
    IF lai < 100 THEN 110
    ELSE IF lai > 400 THEN 95
    ELSE 100

\* A variant of the emergency trigger point: wilting_point + 0.04.
critical_trigger_wide(wilting_point) == wilting_point + 40000

\* The emergency trigger point: wilting_point + 0.02 (unit M).
critical_trigger(wilting_point) == wilting_point + 20000

\* A variant of the urgent trigger point: theta_crit_adjusted - 0.02.
high_trigger_wide(theta_crit_adjusted) == theta_crit_adjusted - 20000

\* The urgent trigger point: theta_crit_adjusted - 0.01 (unit M).
high_trigger(theta_crit_adjusted) == theta_crit_adjusted - 10000

\* _calculate_stress_threshold_fao56.  TAW, RAW, theta values and the trigger
\* points are returned rounded to 4 decimals (unit 1e-4), as the code does;
\* field_capacity and wilting_point stay in unit M.
calculate_stress_threshold_fao56(crop, soil, veg) ==
    LET crop_params == CropParams(crop)
        soil_params == SoilParams(soil)
        field_capacity == soil_params.field_capacity
        wilting_point == soil_params.wilting_point
        p == crop_params.p
        TAW == field_capacity - wilting_point
        RAW == (p * TAW) \div 100
        theta_crit == field_capacity - RAW
        vegetation_adjustment == calculate_vegetation_adjustment(veg.lai, crop)
        theta_crit_adjusted == (theta_crit * vegetation_adjustment) \div 100
    IN  [ theta_critical |-> Round4(theta_crit_adjusted),
          theta_critical_base |-> Round4(theta_crit),
          field_capacity |-> field_capacity,
          wilting_point |-> wilting_point,
          TAW |-> Round4(TAW),
          RAW |-> Round4(RAW),
          depletion_fraction_p |-> p,
          vegetation_adjustment |-> vegetation_adjustment,
          trigger_points |->
              [ low |-> Round4(theta_crit_adjusted + 20000),
                medium |-> Round4(theta_crit_adjusted),
                high |-> Round4(high_trigger(theta_crit_adjusted)),
                critical |-> Round4(critical_trigger(wilting_point)) ] ]

-----------------------------------------------------------------------------
(* SmartIrrigationService: hydrological simulator.                          *)

\* The un-floored value of the simplified Penman-Monteith expression, in
\* 1e-3 mm/day.  temperature and humidity in 1e-1, solar_radiation in 1e-4.
\*   (0.408*delta*Rs + 0.665*900/(T+273)*2*0.01*(100-RH)) / (delta + 0.665*1.68)
PenmanMonteithRaw(temperature, humidity, solar_radiation) ==
    LET delta == Delta4(temperature)
        radiation_term == (((delta * solar_radiation) \div 1000) * 408) \div 1000
        aerodynamic_term == (1197000 * (1000 - humidity)) \div (temperature + 2730)
    IN  (100 * (radiation_term + aerodynamic_term)) \div (delta + 11172)

\* _calculate_reference_et_penman_monteith: max(0, et0).
calculate_reference_et_penman_monteith(temperature, humidity, solar_radiation) ==
    Max(0, PenmanMonteithRaw(temperature, humidity, solar_radiation))

\* _calculate_hourly_et0: daily_et0 / 24, in nm per hour.  wind is unused.
calculate_hourly_et0(temp, humidity, wind, solar) ==
    (calculate_reference_et_penman_monteith(temp, humidity, solar) * 1000) \div 24

\* A variant of _get_crop_coefficient whose initial stage returns the excess
\* of the coefficient over the reference crop (Kc - 1), a negative number.
get_crop_coefficient_excess(crop, lai) ==
    LET kc == CropParams(crop).kc_values
    IN  IF lai < 100 THEN kc.initial - 100
        ELSE IF lai < 250 THEN kc.development
        ELSE IF lai < 400 THEN kc.mid_season
        ELSE kc.late_season

\* _get_crop_coefficient, result in 1e-2.
get_crop_coefficient(crop, lai) ==
    LET kc == CropParams(crop).kc_values
    IN  IF lai < 100 THEN kc.initial
        ELSE IF lai < 250 THEN kc.development
        ELSE IF lai < 400 THEN kc.mid_season
        ELSE kc.late_season

\* _calculate_deep_percolation, in nm per hour; moisture in unit M.
calculate_deep_percolation(moisture, field_capacity, hydraulic_conductivity) ==
    IF moisture <= field_capacity THEN 0
    ELSE Min((moisture - field_capacity) * 1000,
             (hydraulic_conductivity * 100000) \div 24)

\* A variant of the clamp without the lower bound: min(field_capacity, moisture)
ClampAbove(moisture, wilting_point, field_capacity) ==
    Min(field_capacity, moisture)

\* A variant of the clamp without the upper bound: max(wilting_point, moisture)
ClampBelow(moisture, wilting_point, field_capacity) ==
    Max(wilting_point, moisture)

\* max(wilting_point, min(field_capacity, moisture))
ClampMoisture(moisture, wilting_point, field_capacity) ==
    Max(wilting_point, Min(field_capacity, moisture))

\* The forecast day the simulation reads at `h`.
ForecastDay(forecast, h) ==
    LET day_index == h \div 24
    IN  IF day_index < Len(forecast) THEN forecast[day_index + 1]
        ELSE forecast[Len(forecast)]

\* One iteration of the loop of _run_hydrological_model_fest_ewb: the new
\* moisture (unit M) and the SoilMoistureData point it appends.  `clock` is
\* the value datetime.now() returns in this iteration.  kc (1e-2), crop_et,
\* deep_percolation and runoff (nm) are the iteration's locals of these names,
\* kept beside the point so that properties can refer to them.
FestEwbStep(moisture, forecast, h, veg, crop, soil, init, clock) ==
    LET crop_params == CropParams(crop)
        soil_params == SoilParams(soil)
        field_capacity == soil_params.field_capacity
        wilting_point == soil_params.wilting_point
        root_depth == crop_params.rooting_depth
        weather == ForecastDay(forecast, h)
        hourly_temp == weather.temperature + (50 * SinHour(h)) \div 1000
        hourly_humidity == weather.humidity
        hourly_precipitation == (weather.rainfall * 100000) \div 24
        hourly_wind == weather.wind_speed
        hourly_solar == weather.solar_radiation * Max(0, SinHour(h))
        et0_hourly == calculate_hourly_et0(hourly_temp, hourly_humidity,
                                           hourly_wind, hourly_solar)
        kc == get_crop_coefficient(crop, veg.lai)
        crop_et == (et0_hourly * kc) \div 100
        infiltration == Min(hourly_precipitation,
                            soil_params.infiltration_rate * 1000000)
        runoff == Max(0, hourly_precipitation - infiltration)
        deep_percolation ==
            calculate_deep_percolation(moisture, field_capacity,
                                       soil_params.hydraulic_conductivity)
        moisture_change == (infiltration - crop_et - deep_percolation) \div root_depth
        new_moisture == ClampMoisture(moisture + moisture_change,
                                      wilting_point, field_capacity)
        stress_threshold ==
            IF "stress_threshold" \in DOMAIN init THEN init.stress_threshold
            ELSE field_capacity
                 - (crop_params.p * (field_capacity - wilting_point)) \div 100
        deficit == Max(0, field_capacity - new_moisture)
    IN  [ new_moisture |-> new_moisture,
          data |-> [ datetime |-> clock + h,
                     soil_moisture |-> Round4(new_moisture),
                     field_capacity |-> field_capacity,
                     wilting_point |-> wilting_point,
                     stress_threshold |-> stress_threshold,
                     deficit |-> Round4(deficit),
                     depth_cm |-> root_depth \div 10,
                     kc |-> kc,
                     crop_et |-> crop_et,
                     deep_percolation |-> deep_percolation,
                     runoff |-> runoff ] ]

-----------------------------------------------------------------------------
(* SmartIrrigationService: stress analyzer.                                 *)

\* A variant of StressLevel whose chain tests the trigger points from the
\* highest to the lowest.
StressLevelLowFirst(soil_moisture, trigger_points) ==
    IF soil_moisture < trigger_points.low THEN "low"
    ELSE IF soil_moisture < trigger_points.medium THEN "medium"
    ELSE IF soil_moisture < trigger_points.high THEN "high"
    ELSE IF soil_moisture < trigger_points.critical THEN "critical"
    ELSE "none"

\* The stress level of one forecast point (moisture and trigger points in
\* 1e-4), by the if/elif chain of _analyze_stress_conditions_pregi.
StressLevel(soil_moisture, trigger_points) ==
    IF soil_moisture < trigger_points.critical THEN "critical"
    ELSE IF soil_moisture < trigger_points.high THEN "high"
    ELSE IF soil_moisture < trigger_points.medium THEN "medium"
    ELSE IF soil_moisture < trigger_points.low THEN "low"
    ELSE "none"

\* _calculate_urgency_score, in 1e-1.
calculate_urgency_score(soil_moisture, trigger_points) ==
    IF soil_moisture < trigger_points.critical THEN 10
    ELSE IF soil_moisture < trigger_points.high THEN 8
    ELSE IF soil_moisture < trigger_points.medium THEN 6
    ELSE IF soil_moisture < trigger_points.low THEN 4
    ELSE 0

\* A variant of _determine_irrigation_urgency that calls the urgency critical
\* only after more than 72 critical hours.
determine_irrigation_urgency_late(stress_events, critical_periods) ==
    IF Len(critical_periods) > 72 THEN "critical"
    ELSE IF Len(critical_periods) > 0 THEN "high"
    ELSE IF Len(stress_events) > 24 THEN "medium"
    ELSE IF Len(stress_events) > 0 THEN "low"
    ELSE "none"

\* A variant of _determine_irrigation_urgency without the level medium.
determine_irrigation_urgency_flat(stress_events, critical_periods) ==
    IF Len(critical_periods) > 12 THEN "critical"
    ELSE IF Len(critical_periods) > 0 THEN "high"
    ELSE IF Len(stress_events) > 0 THEN "low"
    ELSE "none"

\* _determine_irrigation_urgency
determine_irrigation_urgency(stress_events, critical_periods) ==
    IF Len(critical_periods) > 12 THEN "critical"
    ELSE IF Len(critical_periods) > 0 THEN "high"
    ELSE IF Len(stress_events) > 24 THEN "medium"
    ELSE IF Len(stress_events) > 0 THEN "low"
    ELSE "none"

CountLevel(stress_events, level) ==
    Cardinality({ i \in 1..Len(stress_events) : stress_events[i].stress_level = level })

\* A variant of _classify_overall_stress_severity without the level moderate.
classify_overall_stress_severity_coarse(stress_events) ==
    IF Len(stress_events) = 0 THEN "none"
    ELSE LET critical_count == CountLevel(stress_events, "critical")
             high_count == CountLevel(stress_events, "high")
         IN  IF critical_count > 6 THEN "critical"
             ELSE IF critical_count > 0 \/ high_count > 0 THEN "high"
             ELSE "low"

\* A variant of _classify_overall_stress_severity that tolerates up to 12
\* hours of level high: without the level moderate, such a series is low.
classify_overall_stress_severity_tolerant(stress_events) ==
    IF Len(stress_events) = 0 THEN "none"
    ELSE LET critical_count == CountLevel(stress_events, "critical")
             high_count == CountLevel(stress_events, "high")
         IN  IF critical_count > 6 THEN "critical"
             ELSE IF critical_count > 0 \/ high_count > 12 THEN "high"
             ELSE "low"

\* _classify_overall_stress_severity
classify_overall_stress_severity(stress_events) ==
    IF Len(stress_events) = 0 THEN "none"
    ELSE LET critical_count == CountLevel(stress_events, "critical")
             high_count == CountLevel(stress_events, "high")
         IN  IF critical_count > 6 THEN "critical"
             ELSE IF critical_count > 0 \/ high_count > 12 THEN "high"
             ELSE IF high_count > 0 THEN "moderate"
             ELSE "low"

SetMin(S) == CHOOSE x \in S : \A y \in S : x <= y
SetMax(S) == CHOOSE x \in S : \A y \in S : x >= y

\* The indices 1..n as a sequence (the order in which the loop visits them).
Indices(n) == [ i \in 1..n |-> i ]

\* _analyze_stress_conditions_pregi.  stress_hours in half hours,
\* stress_percentage in 1e-1 percent.
analyze_stress_conditions_pregi(forecast, threshold_data) ==
    LET trigger_points == threshold_data.trigger_points
        n == Len(forecast)
        Level(i) == StressLevel(forecast[i].soil_moisture, trigger_points)
        Stressed(i) == Level(i) # "none"
        Severe(i) == Level(i) \in {"high", "critical"}
        stressed == SelectSeq(Indices(n), Stressed)
        stress_events ==
            [ k \in 1..Len(stressed) |->
                [ hour |-> stressed[k] - 1,
                  datetime |-> forecast[stressed[k]].datetime,
                  soil_moisture |-> forecast[stressed[k]].soil_moisture,
                  deficit |-> forecast[stressed[k]].deficit,
                  stress_level |-> Level(stressed[k]),
                  urgency_score |->
                      calculate_urgency_score(forecast[stressed[k]].soil_moisture,
                                              trigger_points) ] ]
        severe == SelectSeq(Indices(n), Severe)
        critical_periods == [ k \in 1..Len(severe) |-> severe[k] - 1 ]
        stress_hours ==
            2 * Cardinality({ i \in 1..n : Level(i) \in {"critical", "high", "medium"} })
            + Cardinality({ i \in 1..n : Level(i) = "low" })
    IN  [ stress_events |-> stress_events,
          stress_hours |-> stress_hours,
          stress_percentage |-> RoundHalfEven((stress_hours * 1000) \div 2, n),
          min_forecasted_moisture |->
              SetMin({ forecast[i].soil_moisture : i \in 1..n }),
          max_deficit |-> SetMax({0} \cup { forecast[i].deficit : i \in 1..n }),
          critical_periods |-> critical_periods,
          irrigation_triggered |-> Len(stress_events) > 0,
          irrigation_urgency |->
              determine_irrigation_urgency(stress_events, critical_periods),
          stress_severity |-> classify_overall_stress_severity(stress_events) ]

-----------------------------------------------------------------------------
(* SmartIrrigationService: schedule generator.                              *)

\* A variant of _calculate_irrigation_requirements that sizes the water from
\* the lowest moisture of the forecast, not from the initial moisture.
calculate_irrigation_requirements_from_forecast(analysis, init, crop, soil) ==
    LET crop_params == CropParams(crop)
        soil_params == SoilParams(soil)
        field_capacity == soil_params.field_capacity
        moisture == analysis.min_forecasted_moisture * 100
        root_depth == crop_params.rooting_depth
        moisture_deficit == field_capacity - moisture
        water_needed_mm == (moisture_deficit * root_depth) \div 1000
        water_needed_gross == (water_needed_mm * 100) \div 85
        stress_severity == analysis.stress_severity
        adjusted ==
            IF stress_severity = "critical" THEN (water_needed_gross * 12) \div 10
            ELSE IF stress_severity = "high" THEN (water_needed_gross * 11) \div 10
            ELSE water_needed_gross
    IN  [ net_water_needed |-> Round1(water_needed_mm) * 10,
          gross_water_needed |-> Round1(adjusted) * 10,
          total_water |-> Round1(adjusted) * 10,
          moisture_deficit |-> Round4(moisture_deficit),
          application_efficiency |-> 85 ]

\* _calculate_irrigation_requirements.  soil_water_content in 1e-4; water in
\* 1e-2 mm (the code rounds it to one decimal); moisture_deficit in 1e-4.
calculate_irrigation_requirements(analysis, init, crop, soil) ==
    LET crop_params == CropParams(crop)
        soil_params == SoilParams(soil)
        field_capacity == soil_params.field_capacity
        moisture == init.soil_water_content * 100
        root_depth == crop_params.rooting_depth
        moisture_deficit == field_capacity - moisture
        water_needed_mm == (moisture_deficit * root_depth) \div 1000
        water_needed_gross == (water_needed_mm * 100) \div 85
        stress_severity == analysis.stress_severity
        adjusted ==
            IF stress_severity = "critical" THEN (water_needed_gross * 12) \div 10
            ELSE IF stress_severity = "high" THEN (water_needed_gross * 11) \div 10
            ELSE water_needed_gross
    IN  [ net_water_needed |-> Round1(water_needed_mm) * 10,
          gross_water_needed |-> Round1(adjusted) * 10,
          total_water |-> Round1(adjusted) * 10,
          moisture_deficit |-> Round4(moisture_deficit),
          application_efficiency |-> 85 ]

\* IrrigationEvent(...) as _plan_irrigation_events builds it.
PlannedEvent(when, amount, system) ==
    LET system_params == SystemParams(system)
    IN  [ datetime |-> when,
          water_amount |-> amount,
          irrigation_type |-> system,
          duration |-> amount * (600 \div system_params.application_rate),
          efficiency |-> system_params.efficiency,
          cost |-> amount * system_params.cost_per_mm ]

\* datetime.now().replace(hour=6, minute=0, second=0), clock in hours.
TodayAtSix(clock) == (clock \div 24) * 24 + 6

\* A variant of _plan_irrigation_events that splits the water of urgency high
\* into two halves.
plan_irrigation_events_halved(analysis, requirements, system, forecast, clock) ==
    LET total_water == requirements.total_water
        urgency == analysis.irrigation_urgency
    IN  IF urgency = "critical"
        THEN << PlannedEvent(clock + 1, total_water, system) >>
        ELSE IF urgency = "high"
        THEN << PlannedEvent(clock + 2, (total_water * 5) \div 10, system),
                PlannedEvent(clock + 24, (total_water * 5) \div 10, system) >>
        ELSE IF urgency = "medium"
        THEN << PlannedEvent(TodayAtSix(clock) + 24, total_water, system) >>
        ELSE << PlannedEvent(TodayAtSix(clock) + 48, total_water, system) >>

\* A variant of _plan_irrigation_events whose low-urgency branch omits
\* timedelta(days=2): the event lies at 06:00 of the day of the call.
plan_irrigation_events_same_day(analysis, requirements, system, forecast, clock) ==
    LET total_water == requirements.total_water
        urgency == analysis.irrigation_urgency
    IN  IF urgency = "critical"
        THEN << PlannedEvent(clock + 1, total_water, system) >>
        ELSE IF urgency = "high"
        THEN << PlannedEvent(clock + 2, (total_water * 6) \div 10, system),
                PlannedEvent(clock + 24, (total_water * 4) \div 10, system) >>
        ELSE IF urgency = "medium"
        THEN << PlannedEvent(TodayAtSix(clock) + 24, total_water, system) >>
        ELSE << PlannedEvent(TodayAtSix(clock), total_water, system) >>

\* _plan_irrigation_events
plan_irrigation_events(analysis, requirements, system, forecast, clock) ==
    LET total_water == requirements.total_water
        urgency == analysis.irrigation_urgency
    IN  IF urgency = "critical"
        THEN << PlannedEvent(clock + 1, total_water, system) >>
        ELSE IF urgency = "high"
        THEN << PlannedEvent(clock + 2, (total_water * 6) \div 10, system),
                PlannedEvent(clock + 24, (total_water * 4) \div 10, system) >>
        ELSE IF urgency = "medium"
        THEN LET optimal_time == TodayAtSix(clock) + 24
             IN  << PlannedEvent(IF optimal_time < clock THEN optimal_time + 24
                                 ELSE optimal_time,
                                 total_water, system) >>
        ELSE << PlannedEvent(TodayAtSix(clock) + 48, total_water, system) >>

RECURSIVE SumCost(_)
SumCost(events) ==
    IF events = << >> THEN 0 ELSE Head(events).cost + SumCost(Tail(events))

RECURSIVE SumWater(_)
SumWater(events) ==
    IF events = << >> THEN 0 ELSE Head(events).water_amount + SumWater(Tail(events))

\* _calculate_irrigation_costs; total_cost in 1e-2 USD.
calculate_irrigation_costs(events, system) ==
    [ total_cost |-> RoundHalfEven(SumCost(events), 100),
      system_efficiency |-> SystemParams(system).efficiency ]

\* _calculate_water_efficiency_savings; water_savings_percent in 1e-1 percent.
calculate_water_efficiency_savings(requirements, system, crop) ==
    LET flood_efficiency == service.irrigation_systems["flood"].efficiency
        current_efficiency == SystemParams(system).efficiency
        water_savings_percent ==
            ((current_efficiency - flood_efficiency) * 100000) \div flood_efficiency
    IN  [ water_savings_percent |-> RoundHalfEven(Max(0, water_savings_percent), 100),
          yield_impact |-> "Positive",
          environmental_impact |->
              IF water_savings_percent > 20000 THEN "Highly positive"
              ELSE IF water_savings_percent > 10000 THEN "Positive"
              ELSE "Neutral" ]

\* _determine_optimal_timing
determine_optimal_timing(analysis, forecast) ==
    LET urgency == analysis.irrigation_urgency
    IN  IF urgency = "critical" THEN "Immediate irrigation required"
        ELSE IF urgency = "high" THEN "Irrigate within 2-4 hours"
        ELSE IF urgency = "medium" THEN "Irrigate within 12-24 hours"
        ELSE "Irrigate within 24-48 hours"

\* A variant of the recommendation of the branch `if not needs_irrigation`
\* that leaves the confidence at confidence_base.
NoIrrigationAtBaseConfidence ==
    [ needs_irrigation |-> FALSE,
      confidence |-> 75,
      reasoning |-> "No water stress detected in 72-hour forecast",
      water_amount |-> 0,
      irrigation_method |-> "None required",
      timing |-> "Monitor conditions",
      schedule |-> << >>,
      cost_estimate |-> 0,
      water_savings |-> 1000,
      yield_impact |-> "No impact expected",
      environmental_impact |-> "Positive - water conservation" ]

\* The recommendation of the branch `if not needs_irrigation`.
NoIrrigationRecommendation ==
    [ needs_irrigation |-> FALSE,
      confidence |-> 75 + 15,
      reasoning |-> "No water stress detected in 72-hour forecast",
      water_amount |-> 0,
      irrigation_method |-> "None required",
      timing |-> "Monitor conditions",
      schedule |-> << >>,
      cost_estimate |-> 0,
      water_savings |-> 1000,
      yield_impact |-> "No impact expected",
      environmental_impact |-> "Positive - water conservation" ]

\* A variant of StressConfidence whose confidence_base is 80.
StressConfidenceHighBase(stress_severity) ==
    LET confidence_base == 80
        confidence ==
            IF stress_severity = "critical" THEN confidence_base + 15
            ELSE IF stress_severity = "high" THEN confidence_base + 10
            ELSE IF stress_severity = "moderate" THEN confidence_base + 5
            ELSE confidence_base
    IN  Min(95, confidence)

\* The confidence of a recommendation to irrigate.
StressConfidence(stress_severity) ==
    LET confidence_base == 75
        confidence ==
            IF stress_severity = "critical" THEN confidence_base + 15
            ELSE IF stress_severity = "high" THEN confidence_base + 10
            ELSE IF stress_severity = "moderate" THEN confidence_base + 5
            ELSE confidence_base
    IN  Min(95, confidence)

\* _generate_irrigation_schedule
generate_irrigation_schedule(analysis, init, forecast, crop, soil, system, clock) ==
    IF ~analysis.irrigation_triggered THEN NoIrrigationRecommendation
    ELSE
    LET requirements == calculate_irrigation_requirements(analysis, init, crop, soil)
        events == plan_irrigation_events(analysis, requirements, system, forecast, clock)
        schedule ==
            [ schedule_date |-> clock \div 24,
              recommended_events |-> events,
              total_water_needed |-> requirements.total_water,
              urgency_level |-> analysis.irrigation_urgency,
              next_irrigation_time |->
                  IF events # << >> THEN << events[1].datetime >> ELSE << >>,
              monitoring_frequency |->
                  IF analysis.irrigation_urgency \in {"high", "critical"}
                  THEN "hourly" ELSE "daily" ]
        cost_analysis == calculate_irrigation_costs(events, system)
        efficiency_analysis ==
            calculate_water_efficiency_savings(requirements, system, crop)
    IN  [ needs_irrigation |-> TRUE,
          confidence |-> StressConfidence(analysis.stress_severity),
          reasoning |-> "Water stress detected",
          water_amount |-> requirements.total_water,
          irrigation_method |-> system,
          timing |-> determine_optimal_timing(analysis, forecast),
          schedule |-> << schedule >>,
          cost_estimate |-> cost_analysis.total_cost,
          water_savings |-> efficiency_analysis.water_savings_percent,
          yield_impact |-> efficiency_analysis.yield_impact,
          environmental_impact |-> efficiency_analysis.environmental_impact ]

-----------------------------------------------------------------------------
(* SmartIrrigationService: condition estimator, vegetation parameters and   *)
(* forecast generator.  weather_data is abstracted to a history of `days`    *)
(* daily records: the last 14 equal `day`, so that np.mean over any window   *)
(* of at most 14 days is `day` itself, and the records before them equal     *)
(* `earlier`; lai_data is the list of LAI records; satellite_data is the     *)
(* empty mapping.                                                            *)

\* satellite_data.get('ndvi', [0.6]) of the empty mapping, in 1e-3.
DefaultNdvi == 600

\* len(weather_data[-k:])
RecentDays(history, k) == Min(history.days, k)

\* A variant of _get_default_initial_conditions that starts the soil at 80% of
\* the field capacity, the baseline of the estimate from data.
default_initial_conditions_at_baseline(crop, soil) ==
    LET soil_params == SoilParams(soil)
    IN  [ soil_water_content |-> (soil_params.field_capacity * 8) \div 1000,
          field_capacity |-> soil_params.field_capacity,
          wilting_point |-> soil_params.wilting_point,
          lai |-> 250,
          root_zone_depth |-> CropParams(crop).rooting_depth ]

\* _get_default_initial_conditions
get_default_initial_conditions(crop, soil) ==
    LET soil_params == SoilParams(soil)
    IN  [ soil_water_content |-> (soil_params.field_capacity * 7) \div 1000,
          field_capacity |-> soil_params.field_capacity,
          wilting_point |-> soil_params.wilting_point,
          lai |-> 250,
          root_zone_depth |-> CropParams(crop).rooting_depth ]

\* A variant of EstimateInitialConditions that applies the water balance of
\* the look-back window without the bounds of the soil.
EstimateInitialConditionsUnbounded(lai, history, crop, soil) ==
    LET recent == RecentDays(history, 14)
        total_rainfall == recent * history.day.rainfall * 100
        soil_params == SoilParams(soil)
        crop_params == CropParams(crop)
        field_capacity == soil_params.field_capacity
        wilting_point == soil_params.wilting_point
        et0_daily ==
            calculate_reference_et_penman_monteith(history.day.temperature,
                history.day.humidity, history.day.solar_radiation * 1000)
        total_et == (et0_daily * recent * crop_params.kc_values.mid_season) \div 100
        net_water == total_rainfall - total_et
        moisture_change == (net_water * 1000) \div crop_params.rooting_depth
        base_moisture == (field_capacity * 8) \div 10
        moisture == base_moisture + moisture_change
    IN  [ soil_water_content |-> Round4(moisture),
          field_capacity |-> field_capacity,
          wilting_point |-> wilting_point,
          lai |-> lai[Len(lai)].lai,
          root_zone_depth |-> crop_params.rooting_depth ]

\* _get_initial_conditions_fest_ewb on non-empty weather_data and lai_data
\* whose last record has the key 'lai'.
EstimateInitialConditions(lai, history, crop, soil) ==
    LET recent == RecentDays(history, 14)
        total_rainfall == recent * history.day.rainfall * 100
        soil_params == SoilParams(soil)
        crop_params == CropParams(crop)
        field_capacity == soil_params.field_capacity
        wilting_point == soil_params.wilting_point
        et0_daily ==
            calculate_reference_et_penman_monteith(history.day.temperature,
                history.day.humidity, history.day.solar_radiation * 1000)
        total_et == (et0_daily * recent * crop_params.kc_values.mid_season) \div 100
        net_water == total_rainfall - total_et
        moisture_change == (net_water * 1000) \div crop_params.rooting_depth
        base_moisture == (field_capacity * 8) \div 10
        moisture == ClampMoisture(base_moisture + moisture_change,
                                  wilting_point, field_capacity)
    IN  [ soil_water_content |-> Round4(moisture),
          field_capacity |-> field_capacity,
          wilting_point |-> wilting_point,
          lai |-> lai[Len(lai)].lai,
          root_zone_depth |-> crop_params.rooting_depth ]

\* _estimate_lai_from_ndvi: max(0, min(6, 3.618 * ndvi - 0.118)), rounded to
\* 2 decimals by the caller; ndvi in 1e-3, result in 1e-2.
estimate_lai_from_ndvi(ndvi) ==
    RoundHalfEven(Max(0, Min(6000000, 3618 * ndvi - 118000)), 10000)

\* height_factors of _estimate_vegetation_height, in 1e-2 m.
height_factors == [ asparagus |-> 150, tomato |-> 120, wheat |-> 80 ]

\* _estimate_vegetation_height: base_height * min(1.0, lai / 3.0) with
\* base_height = height_factors.get(crop_type, 1.0), rounded to 2 decimals by
\* the caller; lai in 1e-2, result in 1e-2 m.
estimate_vegetation_height(crop, lai) ==
    LET base_height == IF crop \in DOMAIN height_factors
                       THEN height_factors[crop] ELSE 100
    IN  RoundHalfEven(base_height * Min(300, lai), 300)

\* _extract_vegetation_parameters on the empty satellite_data and lai_data
\* that is empty or whose last record has the key 'lai'.
extract_vegetation_parameters(lai, crop) ==
    LET current_lai == IF lai # << >> THEN lai[Len(lai)].lai
                       ELSE estimate_lai_from_ndvi(DefaultNdvi)
    IN  [ ndvi |-> DefaultNdvi,
          lai |-> current_lai,
          vegetation_height |-> estimate_vegetation_height(crop, current_lai) ]

\* _analyze_seasonal_patterns: the slope is (last - first) / 30 over
\* weather_data[-30:], whose first record is one of the `earlier` days.
\* Trends in 1e-1 per day.
analyze_seasonal_patterns(history) ==
    IF history.days < 30
    THEN [ temperature_trend |-> 0, humidity_trend |-> 0 ]
    ELSE [ temperature_trend |->
               (history.day.temperature - history.earlier.temperature) \div 30,
           humidity_trend |->
               (history.day.humidity - history.earlier.humidity) \div 30 ]

\* One day of _get_default_weather_forecast; day = 0, 1, 2.
DefaultForecastDay(day, clock) ==
    [ date |-> clock \div 24 + day + 1,
      temperature |-> 220 + 10 * day,
      humidity |-> 600 - 50 * day,
      rainfall |-> IF day = 1 THEN 20 ELSE 0,
      wind_speed |-> 20,
      solar_radiation |-> 200 ]

\* A variant of _get_default_weather_forecast whose loop is `range(2)`.
default_weather_forecast_two_days(clock) ==
    [ d \in 1..2 |-> DefaultForecastDay(d - 1, clock) ]

\* _get_default_weather_forecast
get_default_weather_forecast(clock) ==
    [ d \in 1..3 |-> DefaultForecastDay(d - 1, clock) ]

\* One day of the loop of _generate_meteorological_forecast; day = 0, 1, 2.
\* `draw` holds the values np.random returned: z-scores of the normal draws
\* and the standard exponential draw, in 1e-1.  temp_adjustment and
\* humidity_adjustment are the iteration's locals of these names, kept beside
\* the day so that properties can refer to them.
GeneratedForecastDay(history, day, draw, clock) ==
    LET base == history.day
        trends == analyze_seasonal_patterns(history)
        temp_adjustment == trends.temperature_trend * day
        humidity_adjustment == trends.humidity_trend * day
        temp_variation == (25 * draw.temperature) \div 10
        humidity_variation == (80 * draw.humidity) \div 10
        rainfall_variation == Max(0, (base.rainfall * 8 * draw.rainfall) \div 100)
        wind_variation ==
            Max(5, base.wind_speed + (base.wind_speed * 3 * draw.wind_speed) \div 100)
        solar_variation ==
            Max(50, base.solar_radiation
                    + (base.solar_radiation * 2 * draw.solar_radiation) \div 100)
    IN  [ date |-> clock \div 24 + day + 1,
          temperature |-> base.temperature + temp_adjustment + temp_variation,
          humidity |-> Max(200, Min(1000, base.humidity + humidity_adjustment
                                          + humidity_variation)),
          rainfall |-> rainfall_variation,
          wind_speed |-> wind_variation,
          solar_radiation |-> solar_variation,
          temp_adjustment |-> temp_adjustment,
          humidity_adjustment |-> humidity_adjustment ]

\* _calculate_model_accuracy, in 1e-1 percent.
calculate_model_accuracy(analysis) ==
    LET n == Len(analysis.stress_events)
    IN  Min(950, IF n > 0 THEN 850 + Min(100, 2 * n) ELSE 850)

\* _analyze_water_efficiency
analyze_water_efficiency(rec, analysis, crop, soil) ==
    IF ~rec.needs_irrigation
    THEN [ efficiency_score |-> 100, sustainability_rating |-> "Excellent" ]
    ELSE LET base_efficiency ==
                 IF analysis.stress_severity = "low" THEN 75 + 15
                 ELSE IF analysis.stress_severity = "critical" THEN 75 - 10
                 ELSE 75
         IN  [ efficiency_score |-> base_efficiency,
               sustainability_rating |->
                   IF base_efficiency > 85 THEN "Excellent"
                   ELSE IF base_efficiency < 70 THEN "Needs improvement"
                   ELSE "Good" ]

\* The dictionary analyze_smart_irrigation returns on the normal path.
SmartResponse(crop, soil, system, rec, series, threshold, veg, forecast, analysis, clock) ==
    [ timestamp |-> clock,
      crop_type |-> crop,
      soil_type |-> soil,
      irrigation_system |-> system,
      needs_irrigation |-> rec.needs_irrigation,
      confidence |-> rec.confidence,
      reasoning |-> rec.reasoning,
      water_amount |-> << rec.water_amount >>,
      irrigation_method |-> rec.irrigation_method,
      timing |-> rec.timing,
      soil_moisture_forecast |-> series,
      stress_threshold |-> threshold,
      vegetation_parameters |-> veg,
      weather_forecast |-> forecast,
      stress_events |-> analysis.stress_events,
      irrigation_schedule |-> rec.schedule,
      next_irrigation |->
          IF rec.schedule # << >> THEN rec.schedule[1].next_irrigation_time
          ELSE << >>,
      cost_estimate |-> << rec.cost_estimate >>,
      water_savings |-> << rec.water_savings >>,
      yield_impact |-> rec.yield_impact,
      environmental_impact |-> rec.environmental_impact,
      efficiency_analysis |-> analyze_water_efficiency(rec, analysis, crop, soil),
      model_accuracy |-> calculate_model_accuracy(analysis) ]

\* _get_fallback_irrigation_recommendation
get_fallback_irrigation_recommendation(clock) ==
    [ analysis_id |-> << "fallback", clock >>,
      timestamp |-> clock,
      needs_irrigation |-> FALSE,
      confidence |-> 50,
      reasoning |-> "Unable to complete smart irrigation analysis",
      water_amount |-> << >>,
      irrigation_method |-> NONE,
      timing |-> NONE,
      cost_estimate |-> << >>,
      water_savings |-> << >>,
      yield_impact |-> "Analysis incomplete",
      environmental_impact |-> "Unknown",
      processing_time |-> 0,
      model_accuracy |-> 0,
      error |-> "Analysis failed - insufficient data or system error" ]

-----------------------------------------------------------------------------
(* WaterStressAdvisor.                                                       *)

\* WaterStressAdvisor.__init__: its own tables.
wsa_crop_parameters ==
    [ asparagus |-> [ p |-> 65, rooting_depth |-> 1200,
                      kc_values |-> [ initial |-> 50, development |-> 80,
                                      mid_season |-> 115, late_season |-> 100 ] ] ]

wsa_soil_types ==
    [ sandy |-> [ field_capacity |-> 250000, wilting_point |-> 100000,
                  infiltration_rate |-> 25 ],
      loamy |-> [ field_capacity |-> 350000, wilting_point |-> 150000,
                  infiltration_rate |-> 15 ],
      clay  |-> [ field_capacity |-> 450000, wilting_point |-> 200000,
                  infiltration_rate |-> 5 ] ]

WsaCropParams(crop) ==
    IF crop \in DOMAIN wsa_crop_parameters THEN wsa_crop_parameters[crop]
    ELSE wsa_crop_parameters["asparagus"]

WsaSoilParams(soil) ==
    IF soil \in DOMAIN wsa_soil_types THEN wsa_soil_types[soil]
    ELSE wsa_soil_types["loamy"]

\* WaterStressAdvisor._get_default_initial_conditions; moisture in 1e-3.
wsa_get_default_initial_conditions ==
    [ soil_water_content |-> 250, lai |-> 250, root_zone_depth |-> 1200 ]

\* WaterStressAdvisor._get_initial_conditions on non-empty weather_data and
\* lai_data whose last record has the key 'lai'; moisture in 1e-3.
WsaEstimateInitialConditions(lai, history) ==
    LET recent == RecentDays(history, 7)
        total_rainfall == recent * history.day.rainfall
        base_moisture == Min(400000, total_rainfall * 1000)
        evaporation_loss == Max(0, (history.day.temperature - 150) * 500)
        humidity_factor == history.day.humidity * 100
        current_soil_moisture ==
            Max(100000, base_moisture - evaporation_loss + humidity_factor)
    IN  [ soil_water_content |-> Round3(current_soil_moisture),
          lai |-> lai[Len(lai)].lai,
          root_zone_depth |-> 1200 ]

\* WaterStressAdvisor._calculate_stress_threshold; theta_critical, TAW and RAW
\* rounded to 3 decimals (1e-3).
wsa_calculate_stress_threshold(crop, soil) ==
    LET crop_params == WsaCropParams(crop)
        soil_params == WsaSoilParams(soil)
        field_capacity == soil_params.field_capacity
        wilting_point == soil_params.wilting_point
        p == crop_params.p
        TAW == field_capacity - wilting_point
        RAW == (p * TAW) \div 100
        theta_crit == field_capacity - RAW
    IN  [ theta_critical |-> Round3(theta_crit),
          field_capacity |-> field_capacity,
          wilting_point |-> wilting_point,
          TAW |-> Round3(TAW),
          RAW |-> Round3(RAW),
          depletion_fraction_p |-> p ]

\* WaterStressAdvisor._get_default_forecast
wsa_get_default_forecast(clock) ==
    << [ date |-> clock \div 24 + 1, temperature |-> 220, humidity |-> 600, rainfall |-> 20 ],
       [ date |-> clock \div 24 + 2, temperature |-> 240, humidity |-> 550, rainfall |-> 0 ],
       [ date |-> clock \div 24 + 3, temperature |-> 230, humidity |-> 650, rainfall |-> 50 ] >>

\* One day of the loop of WaterStressAdvisor._generate_weather_forecast.
WsaGeneratedForecastDay(history, day, draw, clock) ==
    LET base == history.day
        temp_variation == (30 * draw.temperature) \div 10
        humidity_variation == (100 * draw.humidity) \div 10
        rainfall_variation ==
            Max(0, base.rainfall + (base.rainfall * 5 * draw.rainfall) \div 100)
    IN  [ date |-> clock \div 24 + day + 1,
          temperature |-> base.temperature + temp_variation,
          humidity |-> Max(200, Min(1000, base.humidity + humidity_variation)),
          rainfall |-> rainfall_variation ]

\* floor(sqrt(n)) by bisection.
RECURSIVE SqrtBetween(_, _, _)
SqrtBetween(n, lo, hi) ==
    IF hi - lo <= 1 THEN lo
    ELSE LET mid == (lo + hi) \div 2
         IN  IF mid * mid <= n THEN SqrtBetween(n, mid, hi)
             ELSE SqrtBetween(n, lo, mid)

ISqrt(n) == SqrtBetween(n, 0, 46341)

\* WaterStressAdvisor._calculate_reference_et, in nm:
\*   max(0, 0.0023 * (T + 17.8) * sqrt(abs(T - RH)) * 0.408)
wsa_calculate_reference_et(temperature, humidity) ==
    LET root == ISqrt(Abs(temperature - humidity) * 100000)
        base_et == ((((temperature + 178) * root) \div 100) * 9384) \div 1000
    IN  Max(0, base_et)

\* One iteration of the loop of WaterStressAdvisor._run_hydrological_model.
WsaStep(moisture, forecast, h, crop, soil, clock) ==
    LET crop_params == WsaCropParams(crop)
        soil_params == WsaSoilParams(soil)
        weather == ForecastDay(forecast, h)
        precipitation == (weather.rainfall * 100000) \div 24
        et0 == wsa_calculate_reference_et(weather.temperature, weather.humidity)
        crop_et == (et0 * crop_params.kc_values.mid_season) \div 100
        infiltration == Min(precipitation, soil_params.infiltration_rate * 1000000)
        moisture_change == (infiltration - crop_et) \div 1000
        new_moisture == ClampMoisture(moisture + moisture_change,
                                      soil_params.wilting_point,
                                      soil_params.field_capacity)
    IN  [ new_moisture |-> new_moisture,
          data |-> [ hour |-> h,
                     datetime |-> clock + h,
                     soil_moisture |-> Round3(new_moisture),
                     precipitation |-> precipitation,
                     evapotranspiration |-> crop_et,
                     temperature |-> weather.temperature,
                     humidity |-> weather.humidity ] ]

\* WaterStressAdvisor._determine_urgency_level; stress_percentage in 1e-1
\* percent, max_deficit in 1e-3.
wsa_determine_urgency_level(stress_percentage, max_deficit) ==
    IF stress_percentage > 500 \/ max_deficit > 100 THEN "high"
    ELSE IF stress_percentage > 250 \/ max_deficit > 50 THEN "medium"
    ELSE IF stress_percentage > 0 THEN "low"
    ELSE "none"

\* WaterStressAdvisor._analyze_stress_conditions
wsa_analyze_stress_conditions(forecast, threshold) ==
    LET theta_crit == threshold.theta_critical
        n == Len(forecast)
        stressed == { i \in 1..n : forecast[i].soil_moisture < theta_crit }
        stress_hours == Cardinality(stressed)
        max_deficit ==
            SetMax({0} \cup { theta_crit - forecast[i].soil_moisture : i \in stressed })
        stress_percentage == RoundHalfEven(stress_hours * 1000, n)
    IN  [ stress_hours |-> stress_hours,
          stress_percentage |-> stress_percentage,
          min_forecasted_moisture |->
              SetMin({ forecast[i].soil_moisture : i \in 1..n }),
          max_deficit |-> max_deficit,
          irrigation_triggered |-> stress_hours > 0,
          urgency_level |-> wsa_determine_urgency_level(stress_percentage, max_deficit) ]

\* WaterStressAdvisor._generate_irrigation_recommendation; water_amount in
\* 1e-1 mm, wrapped as an Optional.
wsa_generate_irrigation_recommendation(analysis, init, history, crop, soil) ==
    LET needs_irrigation == analysis.irrigation_triggered
        field_capacity == WsaSoilParams(soil).field_capacity
        moisture_deficit == field_capacity - init.soil_water_content * 1000
        water_amount == (((moisture_deficit * init.root_zone_depth) \div 1000) * 12) \div 10
        recent_rainfall == RecentDays(history, 3) * history.day.rainfall
        confidence_score ==
            70 + (IF needs_irrigation THEN 20 ELSE 10)
               + (IF recent_rainfall > 100 THEN 5 ELSE 0)
    IN  [ needs_irrigation |-> needs_irrigation,
          confidence |-> Min(95, Max(50, confidence_score)),
          reasoning |-> IF needs_irrigation THEN "Water stress detected"
                        ELSE "No water stress detected in 72-hour forecast",
          water_amount |->
              IF needs_irrigation /\ water_amount # 0
              THEN << Round1(water_amount) >> ELSE << >>,
          stress_level |-> IF needs_irrigation THEN analysis.urgency_level ELSE "none",
          soil_moisture_deficit |-> analysis.max_deficit ]

\* The dictionary analyze_water_stress returns on the normal path.
WsaResponse(rec, init, threshold, series, analysis) ==
    [ needs_irrigation |-> rec.needs_irrigation,
      confidence |-> rec.confidence,
      reasoning |-> rec.reasoning,
      water_amount |-> rec.water_amount,
      stress_level |-> rec.stress_level,
      soil_moisture_deficit |-> << rec.soil_moisture_deficit >>,
      analysis_details |-> [ initial_conditions |-> init,
                             stress_threshold |-> threshold,
                             soil_moisture_forecast |-> series,
                             stress_analysis |-> analysis ] ]

\* WaterStressAdvisor._get_fallback_recommendation
wsa_get_fallback_recommendation ==
    [ needs_irrigation |-> FALSE,
      confidence |-> 50,
      reasoning |-> "Unable to complete water stress analysis",
      water_amount |-> << >>,
      stress_level |-> "unknown",
      soil_moisture_deficit |-> << >>,
      analysis_details |-> [ soil_moisture_forecast |-> << >> ] ]

-----------------------------------------------------------------------------
(* Inputs.                                                                  *)

\* Number of equal parts of [wilting_point, field_capacity] whose end points
\* are offered as initial soil moisture.
InitLevels == 2

\* Distance (1e-4) above a trigger point, and above the wilting point, of the
\* further initial moistures, so that the 72-hour drawdown crosses the trigger
\* point, and reaches the wilting point, inside the horizon.
Margin == 40

Crops == DOMAIN crop_parameters
Soils == DOMAIN soil_types
Systems == DOMAIN irrigation_systems \cup {"pivot"}
\* LAI values (1e-2): inside each bucket of _get_crop_coefficient and on the
\* limits 1.0, 2.5 and 4.0 between them.
LaiValues == {50, 100, 250, 400, 450}

\* Forecast days: humid and dark (no evapotranspiration), hot and dry, rain
\* beyond the infiltration rate of clay.
HumidDay == [ temperature |-> 200, humidity |-> 1000, rainfall |-> 0,
              wind_speed |-> 20, solar_radiation |-> 0 ]
DryDay   == [ temperature |-> 300, humidity |-> 300, rainfall |-> 0,
              wind_speed |-> 20, solar_radiation |-> 250 ]
RainDay  == [ temperature |-> 200, humidity |-> 800, rainfall |-> 1500,
              wind_speed |-> 30, solar_radiation |-> 100 ]
WeatherDays == {HumidDay, DryDay, RainDay}
\* Three-day forecasts: the weather of the first day, then two equal days.
Forecasts == { << first, later, later >> : first, later \in WeatherDays }

\* Initial soil_water_content values (1e-4) offered to the simulation.
InitMoistures(crop, soil, lai) ==
    LET soil_params == SoilParams(soil)
        wp == soil_params.wilting_point \div 100
        fc == soil_params.field_capacity \div 100
        tp == calculate_stress_threshold_fao56(crop, soil, [lai |-> lai]).trigger_points
    IN  { wp + (i * (fc - wp)) \div InitLevels : i \in 0..InitLevels }
        \cup { tp.low + Margin, tp.high + Margin, tp.critical + Margin,
               wp + Margin }

-----------------------------------------------------------------------------
(* Arguments of the two entry points.                                        *)

\* lai_data: empty, one record with the key 'lai', one record without it.
LaiInputs == { << >>, << [ lai |-> 450 ] >>, << [ confidence |-> 80 ] >> }

\* weather_data: no history, 14 hot dry days, 30 mild wet days.
MildDay == [ temperature |-> 200, humidity |-> 800, rainfall |-> 50,
             wind_speed |-> 30, solar_radiation |-> 100 ]
NoHistory == [ days |-> 0, day |-> DryDay, earlier |-> DryDay ]
DryHistory == [ days |-> 14, day |-> DryDay, earlier |-> DryDay ]
WetHistory == [ days |-> 30, day |-> MildDay, earlier |-> MildDay ]
Histories == { NoHistory, DryHistory, WetHistory }

\* weather_data whose days before the last 14 were 3 degrees cooler and 30
\* points drier than the mild days after them: 30 such records, and 29.
CoolDay == [ temperature |-> 170, humidity |-> 500, rainfall |-> 50,
            wind_speed |-> 30, solar_radiation |-> 100 ]
\* weather_data of 14 days of heavy rain, and of 14 days of dry heat under a
\* strong sun.
FloodHistory == [ days |-> 14, day |-> RainDay, earlier |-> RainDay ]
ScorchDay == [ temperature |-> 450, humidity |-> 0, rainfall |-> 0,
              wind_speed |-> 20, solar_radiation |-> 350 ]
ScorchHistory == [ days |-> 14, day |-> ScorchDay, earlier |-> ScorchDay ]

WarmingHistory == [ days |-> 30, day |-> MildDay, earlier |-> CoolDay ]
ShortWarmingHistory == [ days |-> 29, day |-> MildDay, earlier |-> CoolDay ]

\* crop_type, soil_type, irrigation_system: a key of the table and a string
\* that is no key of it.
CropArgs == { "tomato", "maize" }
SoilArgs == { "sandy", "peat" }
SystemArgs == { "flood", "pivot" }

\* farm_bounds: a mapping FarmBounds accepts, and one whose north <= south.
BoundsArgs == { "valid", "invalid" }

\* What np.random returns for one forecast day: the z-scores of the normal
\* draws and the standard exponential draw, in 1e-1.
CalmDraw == [ temperature |-> 0, humidity |-> 0, rainfall |-> 10,
              wind_speed |-> 0, solar_radiation |-> 0 ]
GustDraw == [ temperature |-> 10, humidity |-> -10, rainfall |-> 0,
              wind_speed |-> 10, solar_radiation |-> 10 ]
Draws == { CalmDraw, GustDraw }

\* The number of invocations of one entry point on the same arguments.
MaxRuns == 2

\* Times of day (hours after midnight of day 0) at which the schedule stage
\* may be called: before 06:00, at 06:00, after 06:00, in the last hour of the
\* day, and on the following day.
ClockTimes == { 3, 6, 10, 23, 34 }

-----------------------------------------------------------------------------
(* The state machine.  entry = "stages": the caller invokes the stages of    *)
(* SmartIrrigationService one after the other, as analyze_smart_irrigation   *)
(* does, on arguments of its own choice.  entry = "smart": a call of         *)
(* analyze_smart_irrigation.  entry = "wsa": a call of analyze_water_stress. *)

InitStages ==
    /\ service = ServiceInstance
    /\ other = << >>
    /\ entry = "stages"
    /\ crop_type \in Crops
    /\ soil_type \in Soils
    /\ irrigation_system = NONE
    /\ lai_data = NONE
    /\ weather_data = NONE
    /\ farm_bounds = NONE
    /\ pc = "threshold"
    /\ now = 0
    /\ \E lai \in LaiValues :
         /\ vegetation_params = [ lai |-> lai ]
         /\ \E m \in InitMoistures(crop_type, soil_type, lai) :
              initial_conditions = [ soil_water_content |-> m ]
    /\ stress_threshold_data = UNBOUND
    /\ weather_forecast \in Forecasts
    /\ hour = 0
    /\ current_moisture = 0
    /\ soil_moisture_forecast = << >>
    /\ stress_analysis = UNBOUND
    /\ recommendation = UNBOUND
    /\ response = UNBOUND
    /\ run = 1
    /\ previous = << >>

\* A variant of CalculateThreshold that applies the vegetation adjustment to
\* the depletion fraction in place: crop_params is the dictionary held by
\* self.crop_parameters, so the write lands in the shared instance.
CalculateThresholdInPlace ==
    /\ entry \in {"stages", "smart"}
    /\ pc = "threshold"
    /\ stress_threshold_data' =
           calculate_stress_threshold_fao56(crop_type, soil_type, vegetation_params)
    /\ service' =
           [ service EXCEPT
               !.crop_parameters[ IF crop_type \in DOMAIN service.crop_parameters
                                  THEN crop_type ELSE "asparagus" ].p =
                   (@ * calculate_vegetation_adjustment(vegetation_params.lai,
                                                        crop_type)) \div 100 ]
    /\ pc' = IF entry = "stages" THEN "simulate" ELSE "forecast"
    /\ UNCHANGED << entry, crop_type, soil_type, irrigation_system, lai_data,
                    weather_data, farm_bounds, now, initial_conditions,
                    vegetation_params, weather_forecast, hour, current_moisture,
                    soil_moisture_forecast, stress_analysis, recommendation,
                    response, run, previous, other >>

\* Step 3 of analyze_smart_irrigation: _calculate_stress_threshold_fao56.
CalculateThreshold ==
    /\ entry \in {"stages", "smart"}
    /\ pc = "threshold"
    /\ stress_threshold_data' =
           calculate_stress_threshold_fao56(crop_type, soil_type, vegetation_params)
    /\ pc' = IF entry = "stages" THEN "simulate" ELSE "forecast"
    /\ UNCHANGED << entry, crop_type, soil_type, irrigation_system, lai_data,
                    weather_data, farm_bounds, now, initial_conditions,
                    vegetation_params, weather_forecast, hour, current_moisture,
                    soil_moisture_forecast, stress_analysis, recommendation,
                    response, run, previous, service, other >>

\* A variant of BeginSimulation in which the service keeps current_moisture
\* on the instance: a later run starts where the earlier one ended.
BeginSimulationCarryOver ==
    /\ entry \in {"stages", "smart"}
    /\ pc = "simulate"
    /\ current_moisture' = IF run > 1 THEN current_moisture
                           ELSE initial_conditions.soil_water_content * 100
    /\ hour' = 0
    /\ soil_moisture_forecast' = << >>
    /\ pc' = "simulating"
    /\ UNCHANGED << entry, crop_type, soil_type, irrigation_system, lai_data,
                    weather_data, farm_bounds, now, initial_conditions,
                    vegetation_params, stress_threshold_data, weather_forecast,
                    stress_analysis, recommendation, response, run, previous,
                    service, other >>

\* Step 5, entry of _run_hydrological_model_fest_ewb: initialise the state.
BeginSimulation ==
    /\ entry \in {"stages", "smart"}
    /\ pc = "simulate"
    /\ current_moisture' = initial_conditions.soil_water_content * 100
    /\ hour' = 0
    /\ soil_moisture_forecast' = << >>
    /\ pc' = "simulating"
    /\ UNCHANGED << entry, crop_type, soil_type, irrigation_system, lai_data,
                    weather_data, farm_bounds, now, initial_conditions,
                    vegetation_params, stress_threshold_data, weather_forecast,
                    stress_analysis, recommendation, response, run, previous,
                    service, other >>

\* Step 5, one iteration of `for hour in range(self.forecast_horizon)`.
SimulateHour ==
    /\ entry \in {"stages", "smart"}
    /\ pc = "simulating"
    /\ hour < service.forecast_horizon
    /\ LET step == FestEwbStep(current_moisture, weather_forecast, hour,
                               vegetation_params, crop_type, soil_type,
                               initial_conditions, now)
       IN  /\ soil_moisture_forecast' = Append(soil_moisture_forecast, step.data)
           /\ current_moisture' = step.new_moisture
    /\ hour' = hour + 1
    /\ UNCHANGED << entry, crop_type, soil_type, irrigation_system, lai_data,
                    weather_data, farm_bounds, pc, now, initial_conditions,
                    vegetation_params, stress_threshold_data, weather_forecast,
                    stress_analysis, recommendation, response, run, previous,
                    service, other >>

\* Step 5, the loop is exhausted: return forecast_results.
EndSimulation ==
    /\ entry \in {"stages", "smart"}
    /\ pc = "simulating"
    /\ hour = service.forecast_horizon
    /\ pc' = "analyze"
    /\ UNCHANGED << entry, crop_type, soil_type, irrigation_system, lai_data,
                    weather_data, farm_bounds, now, initial_conditions,
                    vegetation_params, stress_threshold_data, weather_forecast,
                    hour, current_moisture, soil_moisture_forecast,
                    stress_analysis, recommendation, response, run, previous,
                    service, other >>

\* Step 6: _analyze_stress_conditions_pregi.
AnalyzeStress ==
    /\ entry \in {"stages", "smart"}
    /\ pc = "analyze"
    /\ stress_analysis' =
           analyze_stress_conditions_pregi(soil_moisture_forecast, stress_threshold_data)
    /\ pc' = "schedule"
    /\ UNCHANGED << entry, crop_type, soil_type, irrigation_system, lai_data,
                    weather_data, farm_bounds, now, initial_conditions,
                    vegetation_params, stress_threshold_data, weather_forecast,
                    hour, current_moisture, soil_moisture_forecast,
                    recommendation, response, run, previous, service, other >>

\* Step 7: _generate_irrigation_schedule.  A caller of the stage chooses the
\* irrigation system with the call; the entry point passes its own argument.
GenerateSchedule ==
    /\ entry \in {"stages", "smart"}
    /\ pc = "schedule"
    /\ \E system \in IF entry = "stages" THEN Systems ELSE {irrigation_system} :
         /\ irrigation_system' = system
         /\ recommendation' =
                generate_irrigation_schedule(stress_analysis, initial_conditions,
                                             weather_forecast, crop_type,
                                             soil_type, system, now)
    /\ pc' = IF entry = "stages" THEN "done" ELSE "respond"
    /\ UNCHANGED << entry, crop_type, soil_type, lai_data, weather_data,
                    farm_bounds, now, initial_conditions, vegetation_params,
                    stress_threshold_data, weather_forecast, hour,
                    current_moisture, soil_moisture_forecast, stress_analysis,
                    response, run, previous, service, other >>

\* The locals of an entry point before its first statement.
FreshLocals ==
    /\ initial_conditions = UNBOUND
    /\ vegetation_params = UNBOUND
    /\ stress_threshold_data = UNBOUND
    /\ weather_forecast = << >>
    /\ hour = 0
    /\ current_moisture = 0
    /\ soil_moisture_forecast = << >>
    /\ stress_analysis = UNBOUND
    /\ recommendation = UNBOUND
    /\ response = UNBOUND

\* A call analyze_smart_irrigation(lai_data, weather_data, {}, farm_bounds,
\* crop_type, soil_type, irrigation_system).
InitSmart ==
    /\ service = ServiceInstance
    /\ other = << >>
    /\ entry = "smart"
    /\ crop_type \in CropArgs
    /\ soil_type \in SoilArgs
    /\ irrigation_system \in SystemArgs
    /\ lai_data \in LaiInputs
    /\ weather_data \in Histories
    /\ farm_bounds \in BoundsArgs
    /\ pc = "initial"
    /\ now = 0
    /\ FreshLocals
    /\ run = 1
    /\ previous = << >>

\* A call analyze_water_stress(lai_data, weather_data, {}, farm_bounds,
\* crop_type, soil_type).
InitWsa ==
    /\ service = ServiceInstance
    /\ other = << >>
    /\ entry = "wsa"
    /\ crop_type \in CropArgs \cup {"asparagus"}
    /\ soil_type \in SoilArgs \cup {"clay"}
    /\ irrigation_system = NONE
    /\ lai_data \in LaiInputs
    /\ weather_data \in Histories
    /\ farm_bounds = "valid"
    /\ pc = "initial"
    /\ now = 0
    /\ FreshLocals
    /\ run = 1
    /\ previous = << >>

\* `not weather_data or not lai_data`
MissingData == weather_data.days = 0 \/ lai_data = << >>

\* lai_data[-1]['lai'] raises KeyError.
LaiKeyError == lai_data # << >> /\ "lai" \notin DOMAIN lai_data[Len(lai_data)]

\* Step 1 of analyze_smart_irrigation: _get_initial_conditions_fest_ewb.
GetInitialConditions ==
    /\ entry = "smart"
    /\ pc = "initial"
    /\ IF MissingData
       THEN /\ initial_conditions' = get_default_initial_conditions(crop_type, soil_type)
            /\ pc' = "vegetation"
       ELSE IF LaiKeyError
       THEN /\ pc' = "except"
            /\ UNCHANGED initial_conditions
       ELSE /\ initial_conditions' =
                   EstimateInitialConditions(lai_data, weather_data, crop_type, soil_type)
            /\ pc' = "vegetation"
    /\ UNCHANGED << entry, crop_type, soil_type, irrigation_system, lai_data,
                    weather_data, farm_bounds, now, vegetation_params,
                    stress_threshold_data, weather_forecast, hour,
                    current_moisture, soil_moisture_forecast, stress_analysis,
                    recommendation, response, run, previous, service, other >>

\* Step 2: _extract_vegetation_parameters.
ExtractVegetation ==
    /\ entry = "smart"
    /\ pc = "vegetation"
    /\ IF LaiKeyError
       THEN /\ pc' = "except"
            /\ UNCHANGED vegetation_params
       ELSE /\ vegetation_params' = extract_vegetation_parameters(lai_data, crop_type)
            /\ pc' = "threshold"
    /\ UNCHANGED << entry, crop_type, soil_type, irrigation_system, lai_data,
                    weather_data, farm_bounds, now, initial_conditions,
                    stress_threshold_data, weather_forecast, hour,
                    current_moisture, soil_moisture_forecast, stress_analysis,
                    recommendation, response, run, previous, service, other >>

\* Step 4: _generate_meteorological_forecast.  The draws come from the
\* process-wide generator of np.random: whatever it returns.
GenerateForecast ==
    /\ entry = "smart"
    /\ pc = "forecast"
    /\ IF weather_data.days = 0
       THEN weather_forecast' = get_default_weather_forecast(now)
       ELSE \E draws \in [ 1..3 -> Draws ] :
                weather_forecast' =
                    [ d \in 1..3 |->
                        GeneratedForecastDay(weather_data, d - 1, draws[d], now) ]
    /\ pc' = "simulate"
    /\ UNCHANGED << entry, crop_type, soil_type, irrigation_system, lai_data,
                    weather_data, farm_bounds, now, initial_conditions,
                    vegetation_params, stress_threshold_data, hour,
                    current_moisture, soil_moisture_forecast, stress_analysis,
                    recommendation, response, run, previous, service, other >>

\* Step 8 and the construction of the response: FarmBounds(**farm_bounds)
\* raises ValueError on bounds it rejects.
BuildResponse ==
    /\ entry = "smart"
    /\ pc = "respond"
    /\ IF farm_bounds = "invalid"
       THEN /\ pc' = "except"
            /\ UNCHANGED response
       ELSE /\ response' =
                   SmartResponse(crop_type, soil_type, irrigation_system,
                                 recommendation, soil_moisture_forecast,
                                 stress_threshold_data, vegetation_params,
                                 weather_forecast, stress_analysis, now)
            /\ pc' = "returned"
    /\ UNCHANGED << entry, crop_type, soil_type, irrigation_system, lai_data,
                    weather_data, farm_bounds, now, initial_conditions,
                    vegetation_params, stress_threshold_data, weather_forecast,
                    hour, current_moisture, soil_moisture_forecast,
                    stress_analysis, recommendation, run, previous,
                    service, other >>

\* `except Exception` of analyze_smart_irrigation.
ReturnFallback ==
    /\ entry = "smart"
    /\ pc = "except"
    /\ response' = get_fallback_irrigation_recommendation(now)
    /\ pc' = "fell_back"
    /\ UNCHANGED << entry, crop_type, soil_type, irrigation_system, lai_data,
                    weather_data, farm_bounds, now, initial_conditions,
                    vegetation_params, stress_threshold_data, weather_forecast,
                    hour, current_moisture, soil_moisture_forecast,
                    stress_analysis, recommendation, run, previous,
                    service, other >>

\* Step 1 of analyze_water_stress: _get_initial_conditions.
WsaGetInitialConditions ==
    /\ entry = "wsa"
    /\ pc = "initial"
    /\ IF MissingData
       THEN /\ initial_conditions' = wsa_get_default_initial_conditions
            /\ pc' = "threshold"
       ELSE IF LaiKeyError
       THEN /\ pc' = "except"
            /\ UNCHANGED initial_conditions
       ELSE /\ initial_conditions' =
                   WsaEstimateInitialConditions(lai_data, weather_data)
            /\ pc' = "threshold"
    /\ UNCHANGED << entry, crop_type, soil_type, irrigation_system, lai_data,
                    weather_data, farm_bounds, now, vegetation_params,
                    stress_threshold_data, weather_forecast, hour,
                    current_moisture, soil_moisture_forecast, stress_analysis,
                    recommendation, response, run, previous, service, other >>

\* Step 2: _calculate_stress_threshold.
WsaCalculateThreshold ==
    /\ entry = "wsa"
    /\ pc = "threshold"
    /\ stress_threshold_data' = wsa_calculate_stress_threshold(crop_type, soil_type)
    /\ pc' = "simulate"
    /\ UNCHANGED << entry, crop_type, soil_type, irrigation_system, lai_data,
                    weather_data, farm_bounds, now, initial_conditions,
                    vegetation_params, weather_forecast, hour, current_moisture,
                    soil_moisture_forecast, stress_analysis, recommendation,
                    response, run, previous, service, other >>

\* Step 3, entry of _run_hydrological_model: it generates the forecast itself
\* (_generate_weather_forecast, drawing from np.random) and initialises the
\* state.
WsaBeginSimulation ==
    /\ entry = "wsa"
    /\ pc = "simulate"
    /\ IF weather_data.days = 0
       THEN weather_forecast' = wsa_get_default_forecast(now)
       ELSE \E draws \in [ 1..3 -> Draws ] :
                weather_forecast' =
                    [ d \in 1..3 |->
                        WsaGeneratedForecastDay(weather_data, d - 1, draws[d], now) ]
    /\ current_moisture' = initial_conditions.soil_water_content * 1000
    /\ hour' = 0
    /\ soil_moisture_forecast' = << >>
    /\ pc' = "simulating"
    /\ UNCHANGED << entry, crop_type, soil_type, irrigation_system, lai_data,
                    weather_data, farm_bounds, now, initial_conditions,
                    vegetation_params, stress_threshold_data, stress_analysis,
                    recommendation, response, run, previous, service, other >>

\* Step 3, one iteration of `for hour in range(self.forecast_horizon)`.
WsaSimulateHour ==
    /\ entry = "wsa"
    /\ pc = "simulating"
    /\ hour < forecast_horizon
    /\ LET step == WsaStep(current_moisture, weather_forecast, hour,
                           crop_type, soil_type, now)
       IN  /\ soil_moisture_forecast' = Append(soil_moisture_forecast, step.data)
           /\ current_moisture' = step.new_moisture
    /\ hour' = hour + 1
    /\ UNCHANGED << entry, crop_type, soil_type, irrigation_system, lai_data,
                    weather_data, farm_bounds, pc, now, initial_conditions,
                    vegetation_params, stress_threshold_data, weather_forecast,
                    stress_analysis, recommendation, response, run, previous,
                    service, other >>

\* Step 3, the loop is exhausted: return forecast_results.
WsaEndSimulation ==
    /\ entry = "wsa"
    /\ pc = "simulating"
    /\ hour = forecast_horizon
    /\ pc' = "analyze"
    /\ UNCHANGED << entry, crop_type, soil_type, irrigation_system, lai_data,
                    weather_data, farm_bounds, now, initial_conditions,
                    vegetation_params, stress_threshold_data, weather_forecast,
                    hour, current_moisture, soil_moisture_forecast,
                    stress_analysis, recommendation, response, run, previous,
                    service, other >>

\* Step 4: _analyze_stress_conditions.
WsaAnalyzeStress ==
    /\ entry = "wsa"
    /\ pc = "analyze"
    /\ stress_analysis' =
           wsa_analyze_stress_conditions(soil_moisture_forecast, stress_threshold_data)
    /\ pc' = "recommend"
    /\ UNCHANGED << entry, crop_type, soil_type, irrigation_system, lai_data,
                    weather_data, farm_bounds, now, initial_conditions,
                    vegetation_params, stress_threshold_data, weather_forecast,
                    hour, current_moisture, soil_moisture_forecast,
                    recommendation, response, run, previous, service, other >>

\* Step 5: _generate_irrigation_recommendation.
WsaRecommend ==
    /\ entry = "wsa"
    /\ pc = "recommend"
    /\ recommendation' =
           wsa_generate_irrigation_recommendation(stress_analysis, initial_conditions,
                                                  weather_data, crop_type, soil_type)
    /\ pc' = "respond"
    /\ UNCHANGED << entry, crop_type, soil_type, irrigation_system, lai_data,
                    weather_data, farm_bounds, now, initial_conditions,
                    vegetation_params, stress_threshold_data, weather_forecast,
                    hour, current_moisture, soil_moisture_forecast,
                    stress_analysis, response, run, previous, service, other >>

\* The return statement of the try block.
WsaBuildResponse ==
    /\ entry = "wsa"
    /\ pc = "respond"
    /\ response' = WsaResponse(recommendation, initial_conditions,
                               stress_threshold_data, soil_moisture_forecast,
                               stress_analysis)
    /\ pc' = "returned"
    /\ UNCHANGED << entry, crop_type, soil_type, irrigation_system, lai_data,
                    weather_data, farm_bounds, now, initial_conditions,
                    vegetation_params, stress_threshold_data, weather_forecast,
                    hour, current_moisture, soil_moisture_forecast,
                    stress_analysis, recommendation, run, previous,
                    service, other >>

\* `except Exception` of analyze_water_stress.
WsaReturnFallback ==
    /\ entry = "wsa"
    /\ pc = "except"
    /\ response' = wsa_get_fallback_recommendation
    /\ pc' = "fell_back"
    /\ UNCHANGED << entry, crop_type, soil_type, irrigation_system, lai_data,
                    weather_data, farm_bounds, now, initial_conditions,
                    vegetation_params, stress_threshold_data, weather_forecast,
                    hour, current_moisture, soil_moisture_forecast,
                    stress_analysis, recommendation, run, previous,
                    service, other >>

\* The caller of the stages calls _run_hydrological_model_fest_ewb once more
\* on the same arguments, at a later time.
RepeatSimulation ==
    /\ entry = "stages"
    /\ pc = "analyze"
    /\ run < MaxRuns
    /\ previous' = << [ soil_moisture_forecast |-> soil_moisture_forecast ] >>
    /\ run' = run + 1
    /\ now' = now + 1
    /\ pc' = "simulate"
    /\ UNCHANGED << entry, crop_type, soil_type, irrigation_system, lai_data,
                    weather_data, farm_bounds, initial_conditions,
                    vegetation_params, stress_threshold_data, weather_forecast,
                    hour, current_moisture, soil_moisture_forecast,
                    stress_analysis, recommendation, response,
                    service, other >>

\* The caller invokes the entry point once more on the same arguments, at a
\* later time, on the same service instance in the same process.
Reinvoke ==
    /\ entry \in {"smart", "wsa"}
    /\ pc \in {"returned", "fell_back"}
    /\ run < MaxRuns
    /\ previous' = << [ outcome |-> pc,
                        weather_forecast |-> weather_forecast,
                        soil_moisture_forecast |-> soil_moisture_forecast,
                        response |-> response ] >>
    /\ run' = run + 1
    /\ now' = now + 1
    /\ pc' = "initial"
    /\ initial_conditions' = UNBOUND
    /\ vegetation_params' = UNBOUND
    /\ stress_threshold_data' = UNBOUND
    /\ weather_forecast' = << >>
    /\ hour' = 0
    /\ current_moisture' = 0
    /\ soil_moisture_forecast' = << >>
    /\ stress_analysis' = UNBOUND
    /\ recommendation' = UNBOUND
    /\ response' = UNBOUND
    /\ UNCHANGED << entry, crop_type, soil_type, irrigation_system, lai_data,
                    weather_data, farm_bounds, service, other >>

\* The locals of the call in the second thread before its first statement.
\* draws is what np.random will return to this call.
OtherLocals(crop, soil, system, lai, history, draws) ==
    [ crop_type |-> crop, soil_type |-> soil, irrigation_system |-> system,
      lai_data |-> lai, weather_data |-> history, draws |-> draws,
      pc |-> "initial", initial_conditions |-> UNBOUND, vegetation_params |-> UNBOUND,
      stress_threshold_data |-> UNBOUND, weather_forecast |-> << >>, hour |-> 0,
      current_moisture |-> 0, soil_moisture_forecast |-> << >>,
      stress_analysis |-> UNBOUND, recommendation |-> UNBOUND, response |-> UNBOUND ]

\* The calls the second thread makes: the same crop as the first thread on
\* another soil and system, and another crop.
OtherCalls ==
    { OtherLocals("tomato", "loamy", "sprinkler", << [ lai |-> 250 ] >>,
                  DryHistory, << GustDraw, CalmDraw, GustDraw >>),
      OtherLocals("wheat", "clay", "drip", << >>, NoHistory,
                  << CalmDraw, CalmDraw, CalmDraw >>) }

\* Two requests handled at once by the threaded server on the one
\* smart_irrigation_service: the first call in the variables of the module,
\* the second in `other`.
InitConcurrent ==
    /\ service = ServiceInstance
    /\ other \in { << o >> : o \in OtherCalls }
    /\ entry = "smart"
    /\ crop_type \in CropArgs
    /\ soil_type = "sandy"
    /\ irrigation_system = "flood"
    /\ lai_data \in { << [ lai |-> 450 ] >>, << [ confidence |-> 80 ] >> }
    /\ weather_data = DryHistory
    /\ farm_bounds = "valid"
    /\ pc = "initial"
    /\ now = 0
    /\ FreshLocals
    /\ run = 1
    /\ previous = << >>

\* One step of analyze_smart_irrigation in the second thread: steps 1 to 8 on
\* well-formed arguments, the simulation hour by hour.
OtherThreadStep ==
    /\ other # << >>
    /\ LET o == other[1]
       IN  \/ /\ o.pc = "initial"
              /\ other' = << [ o EXCEPT
                     !.initial_conditions =
                         IF o.weather_data.days = 0 \/ o.lai_data = << >>
                         THEN get_default_initial_conditions(o.crop_type, o.soil_type)
                         ELSE EstimateInitialConditions(o.lai_data, o.weather_data,
                                                        o.crop_type, o.soil_type),
                     !.pc = "vegetation" ] >>
           \/ /\ o.pc = "vegetation"
              /\ other' = << [ o EXCEPT
                     !.vegetation_params =
                         extract_vegetation_parameters(o.lai_data, o.crop_type),
                     !.pc = "threshold" ] >>
           \/ /\ o.pc = "threshold"
              /\ other' = << [ o EXCEPT
                     !.stress_threshold_data =
                         calculate_stress_threshold_fao56(o.crop_type, o.soil_type,
                                                          o.vegetation_params),
                     !.pc = "forecast" ] >>
           \/ /\ o.pc = "forecast"
              /\ other' = << [ o EXCEPT
                     !.weather_forecast =
                         IF o.weather_data.days = 0
                         THEN get_default_weather_forecast(now)
                         ELSE [ d \in 1..3 |->
                                  GeneratedForecastDay(o.weather_data, d - 1,
                                                       o.draws[d], now) ],
                     !.pc = "simulate" ] >>
           \/ /\ o.pc = "simulate"
              /\ other' = << [ o EXCEPT
                     !.current_moisture = o.initial_conditions.soil_water_content * 100,
                     !.hour = 0,
                     !.soil_moisture_forecast = << >>,
                     !.pc = "simulating" ] >>
           \/ /\ o.pc = "simulating"
              /\ o.hour < service.forecast_horizon
              /\ LET step == FestEwbStep(o.current_moisture, o.weather_forecast,
                                         o.hour, o.vegetation_params, o.crop_type,
                                         o.soil_type, o.initial_conditions, now)
                 IN  other' = << [ o EXCEPT
                         !.soil_moisture_forecast = Append(@, step.data),
                         !.current_moisture = step.new_moisture,
                         !.hour = @ + 1 ] >>
           \/ /\ o.pc = "simulating"
              /\ o.hour = service.forecast_horizon
              /\ other' = << [ o EXCEPT !.pc = "analyze" ] >>
           \/ /\ o.pc = "analyze"
              /\ other' = << [ o EXCEPT
                     !.stress_analysis =
                         analyze_stress_conditions_pregi(o.soil_moisture_forecast,
                                                         o.stress_threshold_data),
                     !.pc = "schedule" ] >>
           \/ /\ o.pc = "schedule"
              /\ other' = << [ o EXCEPT
                     !.recommendation =
                         generate_irrigation_schedule(o.stress_analysis,
                             o.initial_conditions, o.weather_forecast, o.crop_type,
                             o.soil_type, o.irrigation_system, now),
                     !.pc = "respond" ] >>
           \/ /\ o.pc = "respond"
              /\ other' = << [ o EXCEPT
                     !.response =
                         SmartResponse(o.crop_type, o.soil_type, o.irrigation_system,
                                       o.recommendation, o.soil_moisture_forecast,
                                       o.stress_threshold_data, o.vegetation_params,
                                       o.weather_forecast, o.stress_analysis, now),
                     !.pc = "returned" ] >>
    /\ UNCHANGED << entry, crop_type, soil_type, irrigation_system, lai_data,
                    weather_data, farm_bounds, pc, now, initial_conditions,
                    vegetation_params, stress_threshold_data, weather_forecast,
                    hour, current_moisture, soil_moisture_forecast,
                    stress_analysis, recommendation, response, run, previous,
                    service >>

\* Time passes before the caller of the stages calls
\* _generate_irrigation_schedule: datetime.now() returns a later time.
ClockAdvances ==
    /\ entry = "stages"
    /\ pc = "schedule"
    /\ \E t \in ClockTimes :
         /\ now < t
         /\ now' = t
    /\ UNCHANGED << entry, crop_type, soil_type, irrigation_system, lai_data,
                    weather_data, farm_bounds, pc, initial_conditions,
                    vegetation_params, stress_threshold_data, weather_forecast,
                    hour, current_moisture, soil_moisture_forecast,
                    stress_analysis, recommendation, response, run, previous,
                    service, other >>

\* The key the lookups of the service substitute for a string that is no key
\* of the table: self.<table>.get(key, self.<table>[fallback]).
ResolvedKey(key, table, fallback) == IF key \in DOMAIN table THEN key ELSE fallback

\* The caller of analyze_smart_irrigation, having passed a string that is no
\* key of its table, calls once more with the fallback keys in its place:
\* 'asparagus', 'loamy', 'drip'.
ReinvokeWithFallbackKeys ==
    /\ entry = "smart"
    /\ pc \in {"returned", "fell_back"}
    /\ run = 1
    /\ \/ crop_type \notin DOMAIN crop_parameters
       \/ soil_type \notin DOMAIN soil_types
       \/ irrigation_system \notin DOMAIN irrigation_systems
    /\ previous' = << [ outcome |-> pc,
                        crop_type |-> crop_type,
                        weather_forecast |-> weather_forecast,
                        soil_moisture_forecast |-> soil_moisture_forecast,
                        response |-> response ] >>
    /\ crop_type' = ResolvedKey(crop_type, crop_parameters, "asparagus")
    /\ soil_type' = ResolvedKey(soil_type, soil_types, "loamy")
    /\ irrigation_system' = ResolvedKey(irrigation_system, irrigation_systems, "drip")
    /\ run' = run + 1
    /\ now' = now + 1
    /\ pc' = "initial"
    /\ initial_conditions' = UNBOUND
    /\ vegetation_params' = UNBOUND
    /\ stress_threshold_data' = UNBOUND
    /\ weather_forecast' = << >>
    /\ hour' = 0
    /\ current_moisture' = 0
    /\ soil_moisture_forecast' = << >>
    /\ stress_analysis' = UNBOUND
    /\ recommendation' = UNBOUND
    /\ response' = UNBOUND
    /\ UNCHANGED << entry, lai_data, weather_data, farm_bounds, service, other >>

-----------------------------------------------------------------------------
(* Specifications.                                                           *)

\* One call of the stages or of an entry point.
Init == InitStages \/ InitSmart \/ InitWsa

NextStages ==
    \/ CalculateThreshold
    \/ BeginSimulation
    \/ SimulateHour
    \/ EndSimulation
    \/ AnalyzeStress
    \/ GenerateSchedule

NextSmart ==
    \/ GetInitialConditions
    \/ ExtractVegetation
    \/ GenerateForecast
    \/ BuildResponse
    \/ ReturnFallback

NextWsa ==
    \/ WsaGetInitialConditions
    \/ WsaCalculateThreshold
    \/ WsaBeginSimulation
    \/ WsaSimulateHour
    \/ WsaEndSimulation
    \/ WsaAnalyzeStress
    \/ WsaRecommend
    \/ WsaBuildResponse
    \/ WsaReturnFallback

Next == NextStages \/ NextSmart \/ NextWsa

Spec == Init /\ [][Next]_vars

\* The simulation stage called repeatedly on the same arguments.
NextRepeat == NextStages \/ RepeatSimulation

SpecRepeat == InitStages /\ [][NextRepeat]_vars

\* An entry point called repeatedly on the same arguments.
InitReinvoke == InitSmart \/ InitWsa

NextReinvoke == NextStages \/ NextSmart \/ NextWsa \/ Reinvoke

SpecReinvoke == InitReinvoke /\ [][NextReinvoke]_vars

\* analyze_smart_irrigation called with a string that is no key, then with the
\* fallback key.
NextFallbackKeys == NextStages \/ NextSmart \/ ReinvokeWithFallbackKeys

SpecFallbackKeys == InitSmart /\ [][NextFallbackKeys]_vars

\* The stages, the schedule stage called at any of the times of day.
NextClock == NextStages \/ ClockAdvances

SpecClock == InitStages /\ [][NextClock]_vars

\* One call of analyze_smart_irrigation.  The interpreter keeps executing the
\* simulation: while a step of _run_hydrological_model_fest_ewb can be taken,
\* one is eventually taken.
NextSmartCall == NextStages \/ NextSmart

RunSimulation == BeginSimulation \/ SimulateHour \/ EndSimulation

\* Every step of the simulation moves pc or the loop variable.
position == << pc, hour >>

\* The calls whose irrigation system is a key of the table and whose
\* farm_bounds FarmBounds accepts.
InitSmartCall ==
    /\ InitSmart
    /\ irrigation_system = "flood"
    /\ farm_bounds = "valid"

SpecSmartFair ==
    InitSmartCall /\ [][NextSmartCall]_vars /\ WF_position(RunSimulation)

\* One call of analyze_smart_irrigation on a history with a seasonal trend.
InitTrendCall ==
    /\ service = ServiceInstance
    /\ other = << >>
    /\ entry = "smart"
    /\ crop_type \in CropArgs
    /\ soil_type = "sandy"
    /\ irrigation_system = "flood"
    /\ lai_data \in { << [ lai |-> 450 ] >>, << [ confidence |-> 80 ] >> }
    /\ weather_data \in { WarmingHistory, ShortWarmingHistory }
    /\ farm_bounds = "valid"
    /\ pc = "initial"
    /\ now = 0
    /\ FreshLocals
    /\ run = 1
    /\ previous = << >>

SpecTrend == InitTrendCall /\ [][NextSmartCall]_vars

\* One call of analyze_smart_irrigation on every soil of the table, with and
\* without data, after wet and after dry weeks.
InitConditionsCall ==
    /\ service = ServiceInstance
    /\ other = << >>
    /\ entry = "smart"
    /\ crop_type \in CropArgs
    /\ soil_type \in Soils \cup SoilArgs
    /\ irrigation_system = "flood"
    /\ lai_data \in LaiInputs
    /\ weather_data \in Histories \cup { FloodHistory, ScorchHistory }
    /\ farm_bounds = "valid"
    /\ pc = "initial"
    /\ now = 0
    /\ FreshLocals
    /\ run = 1
    /\ previous = << >>

SpecConditions == InitConditionsCall /\ [][NextSmartCall]_vars

\* Two calls of analyze_smart_irrigation on the same instance, their steps
\* interleaved in any order.
NextConcurrent == NextStages \/ NextSmart \/ OtherThreadStep

SpecConcurrent == InitConcurrent /\ [][NextConcurrent]_vars

-----------------------------------------------------------------------------
(* Properties.                                                               *)

\* The stress threshold of SmartIrrigationService has been returned.
ThresholdReturned ==
    /\ entry \in {"stages", "smart"}
    /\ pc \in {"forecast", "simulate", "simulating", "analyze", "schedule",
               "respond", "done", "returned"}

\* The stages run on a forecast without rain.
StagesWithoutRain ==
    /\ entry = "stages"
    /\ \A d \in 1..Len(weather_forecast) : weather_forecast[d].rainfall = 0

\* The events of the schedule of the recommendation.
RecommendedEvents == recommendation.schedule[1].recommended_events

\* C1: in both hourly simulations every emitted soil_moisture lies between the
\* wilting point and the field capacity of the selected soil type, at each of
\* the 72 hours, for every crop, soil, initial moisture and forecast.
C1_MoistureWithinSoilBounds ==
    \A i \in 1..Len(soil_moisture_forecast) :
        LET m == soil_moisture_forecast[i].soil_moisture
        IN  IF entry = "wsa"
            THEN /\ WsaSoilParams(soil_type).wilting_point <= m * 1000
                 /\ m * 1000 <= WsaSoilParams(soil_type).field_capacity
            ELSE /\ SoilParams(soil_type).wilting_point <= m * 100
                 /\ m * 100 <= SoilParams(soil_type).field_capacity

\* A finished simulation of WaterStressAdvisor whose initial soil water content
\* lay above the field capacity and whose first emitted value is the field
\* capacity.
C1_Witness ==
    /\ entry = "wsa"
    /\ pc = "analyze"
    /\ Len(soil_moisture_forecast) = forecast_horizon
    /\ initial_conditions.soil_water_content * 1000
           > WsaSoilParams(soil_type).field_capacity
    /\ soil_moisture_forecast[1].soil_moisture * 1000
           = WsaSoilParams(soil_type).field_capacity

\* C2: for every crop and soil of the tables and every LAI (every vegetation
\* adjustment 1.1, 1.0, 0.95) the trigger points _calculate_stress_threshold_fao56
\* returns are strictly ordered: critical < high < medium < low.
C2_TriggerPointsOrdered ==
    ThresholdReturned =>
        LET tp == stress_threshold_data.trigger_points
        IN  /\ tp.critical < tp.high
            /\ tp.high < tp.medium
            /\ tp.medium < tp.low

\* The threshold of asparagus on sandy soil with LAI 4.5 (adjustment 0.95),
\* where high and critical lie closest.
C2_Witness ==
    /\ entry = "stages"
    /\ pc = "simulate"
    /\ crop_type = "asparagus"
    /\ soil_type = "sandy"
    /\ vegetation_params.lai = 450
    /\ stress_threshold_data.vegetation_adjustment = 95
    /\ stress_threshold_data.trigger_points.high
           - stress_threshold_data.trigger_points.critical < 200

\* C3: whenever a stage of analyze_smart_irrigation or analyze_water_stress
\* raises, the call returns a fallback with needs_irrigation = false,
\* confidence = 50, a reasoning text and an `error` field.
C3_FallbackCarriesError ==
    pc = "fell_back" =>
        /\ response.needs_irrigation = FALSE
        /\ response.confidence = 50
        /\ response.reasoning # ""
        /\ "error" \in DOMAIN response

\* C4: a simulation that starts at the wilting point under a forecast without
\* rain and with evapotranspiration at every hour emits the wilting point at
\* every hour; every hour is a stress event of level critical and the
\* irrigation urgency is critical.
C4_DryStartStaysAtWiltingPoint ==
    ( /\ StagesWithoutRain
      /\ initial_conditions.soil_water_content * 100
             = SoilParams(soil_type).wilting_point
      /\ \A i \in 1..Len(soil_moisture_forecast) :
             soil_moisture_forecast[i].crop_et > 0 )
    =>
    ( /\ \A i \in 1..Len(soil_moisture_forecast) :
             soil_moisture_forecast[i].soil_moisture * 100
                 = SoilParams(soil_type).wilting_point
      /\ pc \in {"schedule", "done"} =>
             /\ Len(stress_analysis.stress_events) = forecast_horizon
             /\ \A k \in 1..Len(stress_analysis.stress_events) :
                    stress_analysis.stress_events[k].stress_level = "critical"
             /\ stress_analysis.irrigation_urgency = "critical" )

\* The stages have run from the wilting point through 72 rainless hours, each
\* with evapotranspiration.
C4_Witness ==
    /\ StagesWithoutRain
    /\ pc = "done"
    /\ initial_conditions.soil_water_content * 100
           = SoilParams(soil_type).wilting_point
    /\ Len(soil_moisture_forecast) = forecast_horizon
    /\ \A i \in 1..Len(soil_moisture_forecast) :
           soil_moisture_forecast[i].crop_et > 0
    /\ stress_analysis.irrigation_urgency = "critical"

\* C5: a simulation that starts at field capacity under a forecast without
\* rain and without evapotranspiration keeps the field capacity and a deficit
\* of 0 at every hour, yields no stress event and a recommendation with
\* needs_irrigation = false, for every crop and soil.
C5_WetStartStaysAtFieldCapacity ==
    ( /\ StagesWithoutRain
      /\ initial_conditions.soil_water_content * 100
             = SoilParams(soil_type).field_capacity
      /\ \A i \in 1..Len(soil_moisture_forecast) :
             soil_moisture_forecast[i].crop_et = 0 )
    =>
    ( /\ \A i \in 1..Len(soil_moisture_forecast) :
             /\ soil_moisture_forecast[i].soil_moisture * 100
                    = SoilParams(soil_type).field_capacity
             /\ soil_moisture_forecast[i].deficit = 0
      /\ pc \in {"schedule", "done"} =>
             /\ stress_analysis.stress_events = << >>
             /\ ~stress_analysis.irrigation_triggered
      /\ pc = "done" => ~recommendation.needs_irrigation )

\* The stages have run from field capacity through 72 hours without rain and
\* without evapotranspiration, for young tomato plants on sandy soil (the
\* highest low trigger point relative to the field capacity).
C5_Witness ==
    /\ StagesWithoutRain
    /\ pc = "done"
    /\ crop_type = "tomato"
    /\ soil_type = "sandy"
    /\ vegetation_params.lai < 100
    /\ initial_conditions.soil_water_content * 100
           = SoilParams(soil_type).field_capacity
    /\ Len(soil_moisture_forecast) = forecast_horizon
    /\ \A i \in 1..Len(soil_moisture_forecast) :
           soil_moisture_forecast[i].crop_et = 0
    /\ ~recommendation.needs_irrigation

\* C6: when the stress analysis has no stress event,
\* _generate_irrigation_schedule returns needs_irrigation = false,
\* confidence = 90, water_amount = 0, water_savings = 100 and no schedule,
\* whatever the irrigation system.
C6_NoStressNoIrrigation ==
    ( /\ entry \in {"stages", "smart"}
      /\ pc \in {"done", "respond", "returned"}
      /\ stress_analysis.stress_events = << >> )
    =>
    ( /\ recommendation.needs_irrigation = FALSE
      /\ recommendation.confidence = 90
      /\ recommendation.water_amount = 0
      /\ recommendation.water_savings = 1000
      /\ recommendation.schedule = << >> )

\* A recommendation made without stress events for a system that is no key of
\* the table.
C6_Witness ==
    /\ entry = "stages"
    /\ pc = "done"
    /\ stress_analysis.stress_events = << >>
    /\ irrigation_system = "pivot"
    /\ recommendation.confidence = 90

\* C7: for asparagus on loamy soil with LAI 2.5 the threshold has TAW 0.20,
\* RAW 0.13, theta_critical 0.22 and trigger points low 0.24, medium 0.22,
\* high 0.21, critical 0.17; in general medium = theta_crit,
\* low = theta_crit + 0.02, high = theta_crit - 0.01, critical = WP + 0.02,
\* with theta_crit = (FC - p * (FC - WP)) * vegetation_adjustment.
C7_ThresholdValues ==
    ThresholdReturned =>
        LET t == stress_threshold_data
            tp == t.trigger_points
            fc == SoilParams(soil_type).field_capacity
            wp == SoilParams(soil_type).wilting_point
            p == CropParams(crop_type).p
            theta == ((fc - (p * (fc - wp)) \div 100) * t.vegetation_adjustment) \div 100
        IN  /\ ( crop_type = "asparagus" /\ soil_type = "loamy"
                 /\ vegetation_params.lai = 250 )
                => /\ t.TAW = 2000
                   /\ t.RAW = 1300
                   /\ t.theta_critical = 2200
                   /\ tp = [ low |-> 2400, medium |-> 2200,
                             high |-> 2100, critical |-> 1700 ]
            /\ t.theta_critical = Round4(theta)
            /\ tp.medium = Round4(theta)
            /\ tp.low = Round4(theta + 20000)
            /\ tp.high = Round4(theta - 10000)
            /\ tp.critical = Round4(wp + 20000)

\* The threshold of asparagus on loamy soil with LAI 2.5 has been returned.
C7_Witness ==
    /\ entry = "stages"
    /\ pc = "simulate"
    /\ crop_type = "asparagus"
    /\ soil_type = "loamy"
    /\ vegetation_params.lai = 250
    /\ stress_threshold_data.trigger_points.low = 2400

\* C8: every planned IrrigationEvent has duration = water_amount /
\* application_rate, cost = water_amount * cost_per_mm and the efficiency of
\* the table entry of the selected system (the drip entry for an unknown
\* system); a drip event of 20 mm lasts 4.0 h and costs 3.0.
C8_EventFollowsSystem ==
    ( /\ entry \in {"stages", "smart"}
      /\ pc \in {"done", "respond", "returned"}
      /\ recommendation.needs_irrigation )
    =>
    LET chosen == IF irrigation_system \in DOMAIN irrigation_systems
                  THEN irrigation_systems[irrigation_system]
                  ELSE irrigation_systems["drip"]
    IN  /\ RecommendedEvents # << >>
        /\ \A k \in 1..Len(RecommendedEvents) :
               LET e == RecommendedEvents[k]
               IN  /\ e.duration * chosen.application_rate = e.water_amount * 600
                   /\ e.cost = e.water_amount * chosen.cost_per_mm
                   /\ e.efficiency = chosen.efficiency
                   /\ ( e.irrigation_type = "drip" /\ e.water_amount = 2000 )
                          => ( e.duration = 4 * 60000 /\ e.cost = 30000 )

\* A schedule with a drip event of exactly 20 mm.
C8_Witness ==
    /\ entry = "stages"
    /\ pc = "done"
    /\ recommendation.needs_irrigation
    /\ \E k \in 1..Len(RecommendedEvents) :
           /\ RecommendedEvents[k].irrigation_type = "drip"
           /\ RecommendedEvents[k].water_amount = 2000
           /\ RecommendedEvents[k].duration = 240000

\* C9: two runs of _run_hydrological_model_fest_ewb on the same initial soil
\* water content, forecast, LAI, crop and soil emit the same soil_moisture and
\* deficit at each of the 72 hours.
C9_SimulationDeterministic ==
    ( entry = "stages" /\ previous # << >> ) =>
        \A i \in 1..Len(soil_moisture_forecast) :
            /\ soil_moisture_forecast[i].soil_moisture
                   = previous[1].soil_moisture_forecast[i].soil_moisture
            /\ soil_moisture_forecast[i].deficit
                   = previous[1].soil_moisture_forecast[i].deficit

\* A second run has finished, at a later time than the first, on a series
\* that moves.
C9_Witness ==
    /\ entry = "stages"
    /\ run = 2
    /\ pc = "analyze"
    /\ Len(soil_moisture_forecast) = forecast_horizon
    /\ soil_moisture_forecast[1].datetime
           # previous[1].soil_moisture_forecast[1].datetime
    /\ soil_moisture_forecast[forecast_horizon].soil_moisture
           # soil_moisture_forecast[1].soil_moisture

\* The weather values of a forecast, without the dates.
WeatherValues(forecast) ==
    [ d \in 1..Len(forecast) |->
        [ temperature |-> forecast[d].temperature,
          humidity |-> forecast[d].humidity,
          rainfall |-> forecast[d].rainfall ] ]

\* The soil_moisture values of a series.
MoistureValues(series) ==
    [ i \in 1..Len(series) |-> series[i].soil_moisture ]

\* C10: two complete runs of an entry point on identical inputs (nothing the
\* caller passes selects the random source) produce the identical weather
\* forecast, the identical 72-point moisture series and the identical
\* recommendation.
C10_RunsReproducible ==
    ( /\ pc = "returned"
      /\ previous # << >>
      /\ previous[Len(previous)].outcome = "returned" )
    =>
    LET earlier == previous[Len(previous)]
    IN  /\ WeatherValues(weather_forecast) = WeatherValues(earlier.weather_forecast)
        /\ MoistureValues(soil_moisture_forecast)
               = MoistureValues(earlier.soil_moisture_forecast)
        /\ response.needs_irrigation = earlier.response.needs_irrigation
        /\ response.water_amount = earlier.response.water_amount

\* The arguments besides the missing data are well formed: FarmBounds accepts
\* farm_bounds and the last LAI record, if any, has the key 'lai'.
WellFormedArguments == farm_bounds = "valid" /\ ~LaiKeyError

\* What the statement of C11 promises of a call with missing data.
MissingDataOutcome ==
    /\ pc \notin {"initial", "except", "fell_back"} =>
           /\ initial_conditions.soil_water_content * 1000
                  = 7 * SoilParams(soil_type).field_capacity
           /\ initial_conditions.lai = 250
    /\ ( weather_data.days = 0
         /\ pc \in {"simulate", "simulating", "analyze", "schedule", "respond",
                    "returned"} ) =>
           /\ Len(weather_forecast) = 3
           /\ \A d \in 1..3 :
                  /\ weather_forecast[d].temperature = 220 + 10 * (d - 1)
                  /\ weather_forecast[d].humidity = 600 - 50 * (d - 1)
                  /\ weather_forecast[d].rainfall = IF d = 2 THEN 20 ELSE 0
                  /\ weather_forecast[d].wind_speed = 20
                  /\ weather_forecast[d].solar_radiation = 200
    /\ pc \notin {"except", "fell_back"}
    /\ pc = "returned" => "error" \notin DOMAIN response

EventValues(schedule) ==
    IF schedule = << >> THEN << >>
    ELSE [ i \in 1..Len(schedule[1].recommended_events) |->
             LET event == schedule[1].recommended_events[i]
             IN  [ water_amount |-> event.water_amount,
                   duration |-> event.duration,
                   cost |-> event.cost,
                   efficiency |-> event.efficiency ] ]

\* The second call, on the fallback keys, has returned on the forecast values
\* of the first call, which returned too.
FallbackKeysCompared ==
    /\ entry = "smart"
    /\ pc = "returned"
    /\ previous # << >>
    /\ previous[1].outcome = "returned"
    /\ WeatherValues(weather_forecast) = WeatherValues(previous[1].weather_forecast)

\* The numeric results outside the vegetation parameters are those of the call
\* on the fallback keys.
FallbackKeysSameWaterBalance ==
    FallbackKeysCompared =>
        LET earlier == previous[1].response
        IN  /\ MoistureValues(soil_moisture_forecast)
                   = MoistureValues(previous[1].soil_moisture_forecast)
            /\ response.stress_threshold = earlier.stress_threshold
            /\ response.needs_irrigation = earlier.needs_irrigation
            /\ response.confidence = earlier.confidence
            /\ response.water_amount = earlier.water_amount
            /\ response.cost_estimate = earlier.cost_estimate
            /\ response.water_savings = earlier.water_savings
            /\ EventValues(response.irrigation_schedule)
                   = EventValues(earlier.irrigation_schedule)
            /\ response.model_accuracy = earlier.model_accuracy
            /\ response.vegetation_parameters.lai = earlier.vegetation_parameters.lai

\* C12: a crop_type, soil_type or irrigation_system that is no key of its
\* table is never fatal in analyze_smart_irrigation (a call whose other
\* arguments are well formed returns on the normal path), and every stage
\* resolves it to asparagus, loamy or drip: the numeric results are those of
\* the call made with the fallback key in its place.
C12_UnknownKeysFallBack ==
    /\ ( entry = "smart" /\ WellFormedArguments ) =>
           pc \notin {"except", "fell_back"}
    /\ FallbackKeysSameWaterBalance
    /\ FallbackKeysCompared =>
           response.vegetation_parameters.vegetation_height
               = previous[1].response.vegetation_parameters.vegetation_height

\* The series _run_hydrological_model_fest_ewb returns, run without
\* interruption on the locals `o` from the loop state `loop`: the points
\* emitted so far and current_moisture.
RECURSIVE SimulateFrom(_, _)
SimulateFrom(loop, o) ==
    IF Len(loop.series) >= forecast_horizon THEN loop.series
    ELSE LET step == FestEwbStep(loop.current_moisture, o.weather_forecast,
                                 Len(loop.series), o.vegetation_params,
                                 o.crop_type, o.soil_type, o.initial_conditions, now)
         IN  SimulateFrom([ series |-> Append(loop.series, step.data),
                            current_moisture |-> step.new_moisture ], o)

\* What analyze_smart_irrigation returns when it runs alone on the instance as
\* constructed, on the arguments and the forecast of the locals `o`.
AnalyzeAlone(o) ==
    LET init == IF o.weather_data.days = 0 \/ o.lai_data = << >>
                THEN get_default_initial_conditions(o.crop_type, o.soil_type)
                ELSE EstimateInitialConditions(o.lai_data, o.weather_data,
                                               o.crop_type, o.soil_type)
        veg == extract_vegetation_parameters(o.lai_data, o.crop_type)
        threshold == calculate_stress_threshold_fao56(o.crop_type, o.soil_type, veg)
        series == SimulateFrom([ series |-> << >>,
                                 current_moisture |-> init.soil_water_content * 100 ],
                               [ weather_forecast |-> o.weather_forecast,
                                 vegetation_params |-> veg,
                                 crop_type |-> o.crop_type,
                                 soil_type |-> o.soil_type,
                                 initial_conditions |-> init ])
        analysis == analyze_stress_conditions_pregi(series, threshold)
        rec == generate_irrigation_schedule(analysis, init, o.weather_forecast,
                                            o.crop_type, o.soil_type,
                                            o.irrigation_system, now)
    IN  SmartResponse(o.crop_type, o.soil_type, o.irrigation_system, rec, series,
                      threshold, veg, o.weather_forecast, analysis, now)

\* The arguments and the forecast of the call held in the variables.
OwnCall ==
    [ crop_type |-> crop_type, soil_type |-> soil_type,
      irrigation_system |-> irrigation_system, lai_data |-> lai_data,
      weather_data |-> weather_data, weather_forecast |-> weather_forecast ]

\* C13: an analysis never modifies a field of the shared service instance
\* (crop_parameters, soil_types, irrigation_systems, forecast_horizon), and
\* under every interleaving of two concurrent analyses on the instance each
\* returns what it returns when run alone on its inputs and forecast draws.
C13_ConcurrentAnalysesIndependent ==
    /\ service = ServiceInstance
    /\ ( entry = "smart" /\ pc = "returned" ) => response = AnalyzeAlone(OwnCall)
    /\ ( other # << >> /\ other[1].pc = "returned" ) =>
           other[1].response = AnalyzeAlone(other[1])

\* Both calls were in their simulation loops at once, both read the tomato
\* entry of the shared table, and both have returned, one of them planning
\* irrigation.
C13_Witness ==
    /\ entry = "smart"
    /\ pc = "returned"
    /\ other # << >>
    /\ other[1].pc = "returned"
    /\ crop_type = "tomato"
    /\ other[1].crop_type = "tomato"
    /\ response.soil_moisture_forecast # other[1].response.soil_moisture_forecast
    /\ ( response.needs_irrigation \/ other[1].response.needs_irrigation )

\* The forecast has been generated.
ForecastReturned ==
    /\ entry = "smart"
    /\ pc \in {"simulate", "simulating", "analyze", "schedule", "respond", "returned"}

\* The simulation has returned its series.
SimulationReturned ==
    /\ entry = "smart"
    /\ pc \in {"analyze", "schedule", "respond", "returned"}

\* The forecast has 3 days; the loop has emitted one point per hour so far,
\* labelled with the hours 0, 1, ... in increasing order; the next hour h
\* finds its day h // 24 in the forecast, so that the branch
\* `weather = weather_forecast[-1]` is not taken; the returned series has 72
\* points.
ThreeDaysSeventyTwoHours ==
    /\ ForecastReturned => Len(weather_forecast) = 3
    /\ ( entry = "smart" /\ pc = "simulating" ) =>
           /\ Len(soil_moisture_forecast) = hour
           /\ hour <= 72
           /\ hour < 72 =>
                  /\ hour \div 24 < Len(weather_forecast)
                  /\ ForecastDay(weather_forecast, hour)
                         = weather_forecast[hour \div 24 + 1]
    /\ entry = "smart" =>
           \A i \in 1..Len(soil_moisture_forecast) :
               soil_moisture_forecast[i].datetime = now + (i - 1)
    /\ SimulationReturned => Len(soil_moisture_forecast) = 72

\* C14: the forecast generator always returns exactly 3 forecast days, on the
\* generated and on the default path; the simulation always terminates, after
\* emitting exactly 72 states for the hours 0..71 in increasing order, hour h
\* reading forecast day h // 24; the clamp-to-last-forecast-day branch is
\* never taken.
C14_SimulationTerminatesAfter72Hours ==
    /\ []ThreeDaysSeventyTwoHours
    /\ ( entry = "smart" /\ pc = "simulate" ) ~> ( pc = "analyze" )

\* A simulation on a generated forecast has returned.
C14_Witness ==
    /\ entry = "smart"
    /\ pc = "analyze"
    /\ weather_data.days > 0
    /\ Len(weather_forecast) = 3
    /\ Len(soil_moisture_forecast) = 72
    /\ soil_moisture_forecast[72].datetime = now + 71

\* The stress analysis has been returned.
StressAnalysed ==
    /\ entry \in {"stages", "smart"}
    /\ pc \in {"schedule", "done", "respond", "returned"}

\* The points of the series whose soil moisture lies below trigger point
\* `below` and not below trigger point `floor` (0: no floor).
HoursBetween(floor, below) ==
    { i \in 1..Len(soil_moisture_forecast) :
        /\ soil_moisture_forecast[i].soil_moisture < below
        /\ ~( soil_moisture_forecast[i].soil_moisture < floor ) }

\* The hours whose stress event carries the level.
EventHours(level) ==
    { stress_analysis.stress_events[k].hour + 1 :
        k \in { e \in 1..Len(stress_analysis.stress_events) :
                  stress_analysis.stress_events[e].stress_level = level } }

\* The sequence of numbers is strictly increasing.
StrictlyIncreasing(hours) ==
    \A k \in 1..Len(hours) - 1 : hours[k] < hours[k + 1]

\* C15: _analyze_stress_conditions_pregi assigns each forecast hour exactly
\* one stress level by the ordered strict comparisons (soil_moisture below the
\* critical trigger: critical; else below high: high; else below medium:
\* medium; else below low: low; else none); a stress event is recorded exactly
\* for the hours whose level is not none, and critical_periods holds exactly
\* the hour indices whose level is high or critical.
C15_StressLevelsByOrderedComparisons ==
    StressAnalysed =>
        LET tp == stress_threshold_data.trigger_points
            events == stress_analysis.stress_events
            periods == stress_analysis.critical_periods
        IN  /\ EventHours("critical") = HoursBetween(0, tp.critical)
            /\ EventHours("high") = HoursBetween(tp.critical, tp.high)
            /\ EventHours("medium") = HoursBetween(Max(tp.critical, tp.high), tp.medium)
            /\ EventHours("low") =
                   HoursBetween(Max(Max(tp.critical, tp.high), tp.medium), tp.low)
            /\ \A k \in 1..Len(events) :
                   events[k].stress_level \in {"critical", "high", "medium", "low"}
            /\ StrictlyIncreasing([ k \in 1..Len(events) |-> events[k].hour ])
            /\ StrictlyIncreasing(periods)
            /\ { periods[k] + 1 : k \in 1..Len(periods) }
                   = EventHours("critical") \cup EventHours("high")

\* A series with hours of level none, of level medium and of level high or
\* critical.
C15_Witness ==
    /\ StressAnalysed
    /\ Len(stress_analysis.stress_events) < Len(soil_moisture_forecast)
    /\ EventHours("medium") # {}
    /\ EventHours("low") # {}
    /\ stress_analysis.critical_periods # << >>

\* The recommendation has been generated.
ScheduleGenerated ==
    /\ entry \in {"stages", "smart"}
    /\ pc \in {"done", "respond", "returned"}

\* The number of stress events whose level is high or critical.
SevereHours ==
    Cardinality({ k \in 1..Len(stress_analysis.stress_events) :
                    stress_analysis.stress_events[k].stress_level
                        \in {"high", "critical"} })

\* C16: irrigation urgency is decided by the cascade, in order: more than 12
\* hours with level high or critical: critical; at least one such hour: high;
\* more than 24 stress events: medium; at least one stress event: low;
\* otherwise none.  Hence urgency is none exactly when there are no stress
\* events, which is exactly when needs_irrigation is false.
C16_UrgencyCascade ==
    /\ StressAnalysed =>
           LET events == stress_analysis.stress_events
               urgency == stress_analysis.irrigation_urgency
           IN  /\ urgency = ( IF SevereHours > 12 THEN "critical"
                              ELSE IF SevereHours >= 1 THEN "high"
                              ELSE IF Len(events) > 24 THEN "medium"
                              ELSE IF Len(events) >= 1 THEN "low"
                              ELSE "none" )
               /\ urgency = "none" <=> Len(events) = 0
    /\ ScheduleGenerated =>
           ( Len(stress_analysis.stress_events) = 0
               <=> ~recommendation.needs_irrigation )

\* A recommendation on more than 24 stress events none of which is high or
\* critical: urgency medium.
C16_Witness ==
    /\ ScheduleGenerated
    /\ Len(stress_analysis.stress_events) > 24
    /\ SevereHours = 0
    /\ stress_analysis.irrigation_urgency = "medium"
    /\ recommendation.needs_irrigation

\* C17: overall stress severity is decided from the numbers of critical-level
\* and high-level stress events: more than 6 critical: critical; at least one
\* critical or more than 12 high: high; at least one high: moderate; otherwise
\* low; none when there are no stress events.
C17_SeverityFromCounts ==
    StressAnalysed =>
        LET critical_count == Cardinality(EventHours("critical"))
            high_count == Cardinality(EventHours("high"))
        IN  stress_analysis.stress_severity =
                IF Len(stress_analysis.stress_events) = 0 THEN "none"
                ELSE IF critical_count > 6 THEN "critical"
                ELSE IF critical_count > 0 \/ high_count > 12 THEN "high"
                ELSE IF high_count > 0 THEN "moderate"
                ELSE "low"

\* An analysis with one to twelve high-level events and no critical-level
\* event: severity moderate.
C17_Witness ==
    /\ StressAnalysed
    /\ EventHours("critical") = {}
    /\ Cardinality(EventHours("high")) \in 1..12
    /\ stress_analysis.stress_severity = "moderate"

\* C18: when irrigation is needed the confidence of the recommendation is 75
\* plus 15 for severity critical, 10 for high, 5 for moderate and 0 otherwise,
\* capped at 95; over all outcomes of analyze_smart_irrigation (stress, no
\* stress, fallback) the confidence is one of 50, 75, 80, 85, 90 and never
\* exceeds 95.
C18_ConfidenceValues ==
    /\ ( ScheduleGenerated /\ recommendation.needs_irrigation ) =>
           LET severity == stress_analysis.stress_severity
               bonus == IF severity = "critical" THEN 15
                        ELSE IF severity = "high" THEN 10
                        ELSE IF severity = "moderate" THEN 5
                        ELSE 0
           IN  recommendation.confidence = Min(95, 75 + bonus)
    /\ ( entry = "smart" /\ pc \in {"returned", "fell_back"} ) =>
           /\ response.confidence \in {50, 75, 80, 85, 90}
           /\ response.confidence <= 95
           /\ pc = "returned" => response.confidence = recommendation.confidence

\* analyze_smart_irrigation has returned a recommendation to irrigate on
\* severity high, with confidence 85.
C18_Witness ==
    /\ entry = "smart"
    /\ pc = "returned"
    /\ response.needs_irrigation
    /\ stress_analysis.stress_severity = "high"
    /\ response.confidence = 85

\* A recommendation to irrigate has been generated by the stage.
IrrigationPlanned ==
    /\ entry = "stages"
    /\ pc = "done"
    /\ recommendation.needs_irrigation

\* The events are as stated for the urgency: one event of 100% of the gross
\* water at now+1h for critical; 60% at now+2h and 40% at now+24h for high;
\* one event of 100% for medium and low; and the amounts sum to the schedule's
\* total_water_needed.
EventsFollowUrgency ==
    LET events == RecommendedEvents
        urgency == stress_analysis.irrigation_urgency
        gross == calculate_irrigation_requirements(stress_analysis,
                     initial_conditions, crop_type, soil_type).gross_water_needed
    IN  /\ recommendation.schedule[1].total_water_needed = gross
        /\ urgency = "critical" =>
               /\ Len(events) = 1
               /\ events[1].datetime = now + 1
               /\ events[1].water_amount = gross
        /\ urgency = "high" =>
               /\ Len(events) = 2
               /\ events[1].datetime = now + 2
               /\ events[1].water_amount * 100 = 60 * gross
               /\ events[2].datetime = now + 24
               /\ events[2].water_amount * 100 = 40 * gross
        /\ urgency \in {"medium", "low"} =>
               /\ Len(events) = 1
               /\ events[1].water_amount = gross
        /\ SumWater(events) = recommendation.schedule[1].total_water_needed

\* total water (1e-2 mm) times cost_per_mm (1e-2 USD), in 1e-4 USD.
WaterTimesCostPerMm ==
    recommendation.schedule[1].total_water_needed
        * irrigation_systems[ResolvedKey(irrigation_system, irrigation_systems,
                                         "drip")].cost_per_mm

\* C19 as stated: _plan_irrigation_events plans one event at now+1h carrying
\* 100% of the gross water for urgency critical, two events carrying 60% at
\* now+2h and 40% at now+24h for urgency high, one event carrying 100% for
\* medium and low; the event amounts sum to the schedule's total_water_needed
\* and the recommendation's cost_estimate equals total water times the
\* system's cost_per_mm.
C19_EventsAndCost ==
    IrrigationPlanned =>
        /\ EventsFollowUrgency
        /\ recommendation.cost_estimate * 100 = WaterTimesCostPerMm

\* C19, amended: the same, the cost_estimate being total water times
\* cost_per_mm rounded to 2 decimals.
C19_EventsAndRoundedCost ==
    IrrigationPlanned =>
        /\ EventsFollowUrgency
        /\ recommendation.cost_estimate = RoundHalfEven(WaterTimesCostPerMm, 100)

\* A recommendation of urgency high, called at 10:00: two events, the cost
\* of which is no whole number of cents before rounding.
C19_Witness ==
    /\ IrrigationPlanned
    /\ now = 10
    /\ stress_analysis.irrigation_urgency = "high"
    /\ Len(RecommendedEvents) = 2
    /\ WaterTimesCostPerMm % 100 # 0

\* 06:00 of the day `days` days after the day of the clock reading.
SixOClock(days) == (now \div 24 + days) * 24 + 6

\* C20: for urgency medium the single irrigation event is scheduled at the
\* next 06:00 local time: 06:00 tomorrow, or 06:00 the day after tomorrow if
\* the current time is already past 06:00 today.
C20_MediumEventAtNextSix ==
    ( IrrigationPlanned /\ stress_analysis.irrigation_urgency = "medium" ) =>
        /\ Len(RecommendedEvents) = 1
        /\ RecommendedEvents[1].datetime =
               IF now > SixOClock(0) THEN SixOClock(2) ELSE SixOClock(1)

\* The timestamps of the events of the schedule, in the order of the list.
EventTimes == [ i \in 1..Len(RecommendedEvents) |-> RecommendedEvents[i].datetime ]

\* C21: in every schedule _generate_irrigation_schedule produces, for every
\* urgency and every time of day of the call, all events lie strictly after
\* now, the events are in strictly ascending order of their timestamps,
\* next_irrigation_time is the timestamp of the earliest event, and the event
\* of urgency low lies at 06:00 two calendar days after the day of the call.
C21_EventsAfterNowAscending ==
    IrrigationPlanned =>
        /\ EventTimes # << >>
        /\ \A i \in 1..Len(EventTimes) : EventTimes[i] > now
        /\ StrictlyIncreasing(EventTimes)
        /\ recommendation.schedule[1].next_irrigation_time =
               << SetMin({ EventTimes[i] : i \in 1..Len(EventTimes) }) >>
        /\ stress_analysis.irrigation_urgency = "low" =>
               EventTimes = << SixOClock(2) >>

\* A schedule of urgency low generated in the last hour of the day.
C21_Witness ==
    /\ IrrigationPlanned
    /\ now = 23
    /\ stress_analysis.irrigation_urgency = "low"
    /\ EventTimes = << 54 >>

\* The growth stage the specification assigns to an LAI (1e-2): below 1.0
\* initial, 1.0 to 2.5 development, 2.5 to 4.0 mid_season, above 4.0
\* late_season.
StageOfLai(lai) ==
    IF lai < 100 THEN "initial"
    ELSE IF lai < 250 THEN "development"
    ELSE IF lai <= 400 THEN "mid_season"
    ELSE "late_season"

\* C22: _get_crop_coefficient selects the crop's Kc by LAI bucket: below 1.0
\* initial, 1.0 to 2.5 development, 2.5 to 4.0 mid_season, and late_season
\* only above 4.0, so that LAI 4.0 selects mid_season; the late_season bucket
\* is the range the vegetation adjustment treats as mature (factor 0.95).
C22_KcByLaiBucket ==
    ( entry \in {"stages", "smart"} /\ pc \in {"simulating", "analyze"} ) =>
        \A i \in 1..Len(soil_moisture_forecast) :
            /\ soil_moisture_forecast[i].kc =
                   crop_parameters[ResolvedKey(crop_type, crop_parameters, "asparagus")]
                       .kc_values[StageOfLai(vegetation_params.lai)]
            /\ ( StageOfLai(vegetation_params.lai) = "late_season" )
                   <=> ( stress_threshold_data.vegetation_adjustment = 95 )

\* The simulation of SmartIrrigationService has emitted points in this call.
PointsEmitted ==
    /\ entry \in {"stages", "smart"}
    /\ pc \in {"simulating", "analyze", "schedule", "respond", "done", "returned"}
    /\ soil_moisture_forecast # << >>

\* C23: every point the simulation emits carries as stress_threshold the
\* theta_critical the threshold calculator returned in the same run (the
\* vegetation-adjusted threshold, equal to the trigger point medium), for
\* every LAI, below 1.0 and above 4.0 included.
C23_PointCarriesAdjustedThreshold ==
    PointsEmitted =>
        \A i \in 1..Len(soil_moisture_forecast) :
            /\ Round4(soil_moisture_forecast[i].stress_threshold) =
                   stress_threshold_data.theta_critical
            /\ Round4(soil_moisture_forecast[i].stress_threshold) =
                   stress_threshold_data.trigger_points.medium

\* The forecast of this call was generated from a weather history.
ForecastGenerated ==
    /\ entry = "smart"
    /\ pc \in {"simulate", "simulating", "analyze", "schedule", "respond",
               "returned"}
    /\ weather_data.days > 0

\* C24: the seasonal-trend term added to temperature and humidity of forecast
\* day d (d = 1 for tomorrow, 2, 3) is trend * d, and the trend is 0 when the
\* history has fewer than 30 days.
C24_TrendTimesForecastDay ==
    ForecastGenerated =>
        LET trends == analyze_seasonal_patterns(weather_data)
        IN  /\ weather_data.days < 30 =>
                   /\ trends.temperature_trend = 0
                   /\ trends.humidity_trend = 0
            /\ \A d \in 1..Len(weather_forecast) :
                   /\ weather_forecast[d].date = now \div 24 + d
                   /\ weather_forecast[d].temp_adjustment =
                          trends.temperature_trend * d
                   /\ weather_forecast[d].humidity_adjustment =
                          trends.humidity_trend * d

\* The condition estimator of SmartIrrigationService has returned.
InitialConditionsReturned ==
    /\ entry = "smart"
    /\ pc \in {"vegetation", "threshold", "forecast", "simulate", "simulating",
               "analyze", "schedule", "respond", "returned"}

\* The entry of soil_types the lookups select for the argument soil_type.
SelectedSoil == soil_types[ResolvedKey(soil_type, soil_types, "loamy")]

\* C25: the initial soil_water_content the condition estimator of
\* SmartIrrigationService returns lies within [wilting_point, field_capacity]
\* of the selected soil type, for every soil of the table, on the data path
\* (whatever the rainfall and evapotranspiration of the history) and on the
\* default path, where it is 0.7 * field_capacity.
C25_InitialMoistureWithinSoilBounds ==
    InitialConditionsReturned =>
        /\ SelectedSoil.wilting_point <= initial_conditions.soil_water_content * 100
        /\ initial_conditions.soil_water_content * 100 <= SelectedSoil.field_capacity
        /\ MissingData =>
               initial_conditions.soil_water_content * 1000
                   = 7 * SelectedSoil.field_capacity

\* The data path on clay after 14 days of heavy rain: the estimate is held at
\* the field capacity.
C25_Witness ==
    /\ InitialConditionsReturned
    /\ ~MissingData
    /\ soil_type = "clay"
    /\ weather_data = FloodHistory
    /\ initial_conditions.soil_water_content * 100 = SelectedSoil.field_capacity

\* WaterStressAdvisor._get_initial_conditions has returned.
WsaInitialConditionsReturned ==
    /\ entry = "wsa"
    /\ pc \in {"threshold", "simulate", "simulating", "analyze", "recommend",
               "respond", "returned"}

\* The entry of WaterStressAdvisor.soil_types the lookups select.
WsaSelectedSoil == wsa_soil_types[ResolvedKey(soil_type, wsa_soil_types, "loamy")]

\* C26: the initial soil_water_content WaterStressAdvisor._get_initial_conditions
\* returns, which analysis_details reports and which sizes the recommended
\* water_amount, lies within [wilting_point, field_capacity] of the selected
\* soil type, for every soil type and every weather history.
C26_WsaInitialMoistureWithinSoilBounds ==
    WsaInitialConditionsReturned =>
        /\ WsaSelectedSoil.wilting_point <= initial_conditions.soil_water_content * 1000
        /\ initial_conditions.soil_water_content * 1000 <= WsaSelectedSoil.field_capacity
        /\ pc = "returned" =>
               response.analysis_details.initial_conditions.soil_water_content * 1000
                   \in WsaSelectedSoil.wilting_point .. WsaSelectedSoil.field_capacity

\* The schedule generator of SmartIrrigationService recommends to irrigate.
IrrigationRecommended ==
    /\ entry \in {"stages", "smart"}
    /\ pc \in {"done", "respond", "returned"}
    /\ recommendation.needs_irrigation

\* (FC - initial soil_water_content) * root_depth_m * 1000 times the factor of
\* the severity, in 1e-1 mm: the gross water in 1e-1 mm is this number
\* divided by 85.
GrossTimes85 ==
    LET deficit == SelectedSoil.field_capacity \div 100
                       - initial_conditions.soil_water_content
        root_depth ==
            crop_parameters[ResolvedKey(crop_type, crop_parameters, "asparagus")]
                .rooting_depth \div 100
        factor == IF stress_analysis.stress_severity = "critical" THEN 12
                  ELSE IF stress_analysis.stress_severity = "high" THEN 11
                  ELSE 10
    IN  deficit * root_depth * factor

\* C27 as stated: when irrigation is needed the recommended water_amount is
\* ((FC - initial soil_water_content) * root_depth_m * 1000) / 0.85, times
\* 1.20 for severity critical and 1.10 for severity high; it is never
\* negative and is a function of the initial moisture, crop, soil and
\* severity alone, whatever the moisture of the forecast hours.
C27_WaterAmountIsGross ==
    IrrigationRecommended =>
        /\ recommendation.water_amount * 85 = 10 * GrossTimes85
        /\ recommendation.water_amount >= 0

\* C27, amended: the same, the water_amount being the gross water rounded to
\* one decimal.
C27_WaterAmountIsRoundedGross ==
    IrrigationRecommended =>
        /\ recommendation.water_amount % 10 = 0
        /\ 2 * Abs((recommendation.water_amount \div 10) * 85 - GrossTimes85) <= 85
        /\ recommendation.water_amount >= 0

\* A recommendation of severity critical whose gross water has more than one
\* decimal.
C27_Witness ==
    /\ IrrigationRecommended
    /\ stress_analysis.stress_severity = "critical"
    /\ recommendation.water_amount > 0
    /\ GrossTimes85 % 85 # 0

\* C28: during the 72-hour simulation of SmartIrrigationService the
\* deep_percolation term is 0 at every hour: the moisture starts at most at
\* the field capacity and is held at most at the field capacity after every
\* step, so the branch moisture > field_capacity of
\* _calculate_deep_percolation is never taken.
C28_NoDeepPercolation ==
    PointsEmitted =>
        /\ initial_conditions.soil_water_content * 100 <= SelectedSoil.field_capacity
        /\ current_moisture <= SelectedSoil.field_capacity
        /\ \A i \in 1..Len(soil_moisture_forecast) :
               soil_moisture_forecast[i].deep_percolation = 0

\* An hour of rain that starts at the field capacity: the rain that
\* infiltrates is cut off by the bound and nothing percolates.
C28_Witness ==
    /\ PointsEmitted
    /\ \E i \in 2..Len(soil_moisture_forecast) :
         /\ ForecastDay(weather_forecast, i - 1).rainfall > 0
         /\ soil_moisture_forecast[i - 1].soil_moisture * 100 = SelectedSoil.field_capacity
         /\ soil_moisture_forecast[i].soil_moisture * 100 = SelectedSoil.field_capacity
         /\ soil_moisture_forecast[i].deep_percolation = 0

\* The soil moisture (1e-4) before hour i of the simulation (i = 1 for the
\* first hour): the initial soil_water_content, or the point of the hour
\* before.
MoistureBefore(i) ==
    IF i = 1 THEN initial_conditions.soil_water_content
    ELSE soil_moisture_forecast[i - 1].soil_moisture

\* The forecast day of hour i of the simulation carries no rain.
HourWithoutRain(i) == ForecastDay(weather_forecast, i - 1).rainfall = 0

\* C29: in the simulation of SmartIrrigationService, at every hour whose
\* forecast day has rainfall 0, the emitted soil_moisture is at most the
\* soil_moisture of the hour before: the crop evapotranspiration is never
\* negative, every crop coefficient being positive.  Once the moisture has
\* reached the wilting point it stays there until an hour with rain.
C29_NoRiseWithoutRain ==
    PointsEmitted =>
        \A i \in 1..Len(soil_moisture_forecast) :
            /\ soil_moisture_forecast[i].kc > 0
            /\ soil_moisture_forecast[i].crop_et >= 0
            /\ HourWithoutRain(i) =>
                   /\ soil_moisture_forecast[i].soil_moisture <= MoistureBefore(i)
                   /\ MoistureBefore(i) * 100 = SelectedSoil.wilting_point =>
                          soil_moisture_forecast[i].soil_moisture = MoistureBefore(i)

\* A drawdown without rain that starts above the wilting point, falls, reaches
\* the wilting point and stays there.
C29_Witness ==
    /\ PointsEmitted
    /\ \A i \in 1..Len(soil_moisture_forecast) : HourWithoutRain(i)
    /\ initial_conditions.soil_water_content * 100 > SelectedSoil.wilting_point
    /\ \E i \in 2..Len(soil_moisture_forecast) :
         /\ soil_moisture_forecast[i - 1].soil_moisture < MoistureBefore(i - 1)
         /\ soil_moisture_forecast[i - 1].soil_moisture * 100 = SelectedSoil.wilting_point
         /\ soil_moisture_forecast[i].soil_moisture * 100 = SelectedSoil.wilting_point

\* C30: for every 72-hour moisture series the urgency and the severity that
\* _analyze_stress_conditions_pregi computes agree: the urgency is high or
\* critical exactly when the severity is moderate, high or critical; the
\* urgency is low or medium exactly when the severity is low; and urgency
\* critical implies severity high or critical.
C30_UrgencyAgreesWithSeverity ==
    StressAnalysed =>
        LET urgency == stress_analysis.irrigation_urgency
            severity == stress_analysis.stress_severity
        IN  /\ urgency \in {"high", "critical"}
                   <=> severity \in {"moderate", "high", "critical"}
            /\ urgency \in {"low", "medium"} <=> severity = "low"
            /\ urgency = "critical" => severity \in {"high", "critical"}

\* A series with hours of level high and none of level critical: more than 12
\* severe hours make the urgency critical and the severity high.
C30_Witness ==
    /\ StressAnalysed
    /\ Len(soil_moisture_forecast) = 72
    /\ stress_analysis.irrigation_urgency = "critical"
    /\ stress_analysis.stress_severity = "high"
    /\ CountLevel(stress_analysis.stress_events, "critical") = 0

=============================================================================
